---- MODULE Spec2Model ----
(***************************************************************************)
(* Fleet controller for line-following farm robots: node table with        *)
(* occupancy (src/app/util/redis/init_data.py), planner                    *)
(* (src/app/domain/path/service.py) and the device-bus handlers            *)
(* (src/app/util/mqtt/handlers/command.py).                                *)
(***************************************************************************)
EXTENDS Integers, Sequences, FiniteSets, TLC

\* ------------------------------------------------------------------ bounds
\* Number of seeded nodes (60 in init_node_data, scaled down).
MaxNode == 3
\* Number of nodes of the tables the graph search is run on.
PlanNodes == 4
\* Number of neighbour links of a planner table that differ from the seed.
MaxEdits == 1
\* Longest node list handed to cut_path.
MaxLen == 3
\* Ticks of the clock in a calendar day, and the last tick of the horizon.
DayLen == 3
MaxTime == 4
\* Number of nodes of the seeded line whose ids reach two digits.
LineNodes == 11
\* Largest node_count a robot is followed to.
MaxCount == 5

\* ------------------------------------------------------------- value sets
\* Python None (a JSON null, an omitted optional argument, a missing key).
None == "None"
Robots == {"r1", "r2"}
RobotArgs == Robots \cup {None}
\* Map names a message may carry besides MapName; they lack the prefix.
ForeignMaps == {"farm_x", "smartfarm"}
\* The key part {map}:{robot} of the store keys of robot r1 under such a map.
ForeignKey(map_name) == IF map_name = "farm_x" THEN "farm_x:r1" ELSE "smartfarm:r1"
\* The robots whose hashes the store may hold: a robot id alone stands for
\* that robot under MapName.
Keys == Robots \cup {ForeignKey(map_name) : map_name \in ForeignMaps}
NodeIds == 1..MaxNode
\* Node ids a request may name: MaxNode + 1 is not in the table.
Ids == 1..(MaxNode + 1)
MapName == "smartfarm_x"
DirOrder == <<"l", "r", "u", "d">>
Dirs == {"l", "r", "u", "d"}

VARIABLES
    nodes,      \* store hash nodes:{map}: node id -> node JSON
    robots,     \* store hashes robot:state:{map}:{robot}
    arriveKey,  \* store strings robot:arrive:{map}:{robot} (TTL 180 s)
    last,       \* the request handled by the latest step, with its outcome
    th,         \* per thread of control: the call in flight and its locals
    now,        \* the clock read by datetime.now(), in ticks of its resolution
    cursor,     \* store hashes robot:current_state:{map}:{robot}
    daily,      \* store hashes robot:daily_stats:{map}:{robot}:{date}
    paths,      \* store hashes robot:path:{map}:{robot}
    connections, \* store hashes mqtt:connection:{device}:{map}:{deviceId}
    sessions    \* the client ids connected to the device-bus broker

vars == <<nodes, robots, arriveKey, last, th, now, cursor, daily, paths,
          connections, sessions>>

\* ------------------------------------------------------------- node table
\* init_node_data: the node JSON written for node_id when size nodes are
\* seeded (the last node of the line has no left neighbour).
SeedNode(n, size) ==
    IF n = 1 THEN [l |-> 3, r |-> 2, u |-> 0, d |-> 0, occupied |-> None]
    ELSE IF n = 2 THEN [l |-> 1, r |-> 0, u |-> 0, d |-> 0, occupied |-> None]
    ELSE [l |-> IF n < size THEN n + 1 ELSE 0, r |-> IF n = 3 THEN 1 ELSE n - 1,
          u |-> 0, d |-> 0, occupied |-> None]

init_node_data(size) == [n \in 1..size |-> SeedNode(n, size)]

\* get_node returns None when the hash has no field for the node id.
node_exists(t, n) == n \in DOMAIN t

\* redis_service.hset(nodes_key, str(node_id), json.dumps(node))
hset_node(t, n, node) == [m \in (DOMAIN t) \cup {n} |-> IF m = n THEN node ELSE t[m]]

\* Faulty variant of occupy_check: the occupied test of line 136 is missing.
occupy_check_unguarded(t, n) == node_exists(t, n)

\* occupy_node, lines 132-137: the read and the two early returns.
occupy_check(t, n) == node_exists(t, n) /\ t[n].occupied = None

occupy_node(t, n, r) ==
    IF occupy_check(t, n)
    THEN [ret |-> TRUE, nodes |-> hset_node(t, n, [t[n] EXCEPT !.occupied = r])]
    ELSE [ret |-> FALSE, nodes |-> t]

\* Faulty variant of release_check: the ownership test of line 161 is missing.
release_check_unowned(t, n, r) == node_exists(t, n)

\* release_node, lines 156-162: the read and the two early returns
\* (`if robot_id and ...`: an omitted robot id skips the ownership test).
release_check(t, n, r) == node_exists(t, n) /\ (r = None \/ t[n].occupied = r)

release_node(t, n, r) ==
    IF release_check(t, n, r)
    THEN [ret |-> TRUE, nodes |-> hset_node(t, n, [t[n] EXCEPT !.occupied = None])]
    ELSE [ret |-> FALSE, nodes |-> t]

\* Faulty variant of release_targets: every occupied node is taken.
release_targets_any(snapshot, r) == {n \in DOMAIN snapshot : snapshot[n].occupied # None}

\* release_robot_nodes, line 202: the nodes of the snapshot the loop writes.
release_targets(snapshot, r) == {n \in DOMAIN snapshot : snapshot[n].occupied = r}

release_robot_nodes(t, r) ==
    LET todo == release_targets(t, r) IN
    [ret |-> Cardinality(todo),
     nodes |-> [n \in DOMAIN t |->
                  IF n \in todo THEN [t[n] EXCEPT !.occupied = None] ELSE t[n]]]

\* get_occupied_nodes
get_occupied_nodes(t) == {n \in DOMAIN t : t[n].occupied # None}

\* ------------------------------------------------------------ robot record
\* An optional value: <<>> when absent (None, a missing hash field or key).
Absent == <<>>
Some(x) == <<x>>

\* A node reference "7" (sub absent) or "7-2".
Ref(id, sub) == [id |-> id, sub |-> sub]
\* Payload node strings of the device bus: bare ids, and one "n-2".
ArriveRefs == {Ref(1, Absent), Ref(MaxNode, Some(2))}
RemoveRefs == {Ref(n, Absent) : n \in NodeIds} \cup {Ref(1, Some(2))}

\* CommandHandler._parse_node: the node id of "2" or "2-1" (the sub-position
\* is returned too; arrive and remove_path drop it).
parse_node_id(ref) == ref.id

NoRecord == [status |-> None, current_node |-> Absent, final_node |-> Absent,
             battery_state |-> Absent, charging_state |-> Absent]

\* RobotStateService.update_status: status, then current_node = str(node)
\* when a node is given.
update_status(rec, status, node) ==
    IF node = Absent
    THEN [rec EXCEPT !.status = status]
    ELSE [rec EXCEPT !.status = status, !.current_node = Some(Ref(node[1], Absent))]

\* RobotStateService._publish_state_change: the snapshot on the change channel.
state_event(r, rec) == [channel |-> <<MapName, "robot", r, "state">>, msg |-> rec]

\* ------------------------------------------------------- robot state store
\* RobotStatus and RobotOperationState, by their values.
RobotStatus == {"WORKING", "RETURN", "WAITING", "DONE", "CHARGING", "ERROR"}
RobotOperationState == {"idle", "working", "full_charge_idle", "charging"}

\* RobotOperationState.from_robot_status: None for ERROR.
from_robot_status(robot_status, battery_state) ==
    IF robot_status \in {"WORKING", "RETURN"} THEN "working"
    ELSE IF robot_status = "CHARGING" THEN "charging"
    ELSE IF robot_status \in {"WAITING", "DONE"}
         THEN (IF battery_state >= 100 THEN "full_charge_idle" ELSE "idle")
    ELSE None

\* Calendar dates, numbered from the date of tick 0; a date has DayLen ticks.
\* (The 30 days a bucket lives are beyond the horizon.)
Dates == 0..(MaxTime \div DayLen)
date(t) == t \div DayLen
\* datetime.combine(d, datetime.max.time()): the last tick of date d.
end_of_day(d) == (d + 1) * DayLen - 1
\* datetime.combine(d, datetime.min.time()).
start_of_day(d) == d * DayLen

\* robot:current_state hash without fields, robot:daily_stats without keys.
NoCursor == [state |-> None, started_at |-> 0, node_count |-> Absent]
NoStats == [d \in Dates |-> [s \in RobotOperationState |-> 0]]

\* DailyStatsService._add_duration
add_duration(stats, state, duration, target_date) ==
    [stats EXCEPT ![target_date][state] = @ + duration]

\* The end of the part of an interval that lies in date d (lines 115-121).
segment_end(d, ended_at) ==
    IF d = date(ended_at) THEN ended_at ELSE end_of_day(d)

\* DailyStatsService._split_and_add_duration
split_and_add_duration(stats, state, started_at, ended_at) ==
    IF date(started_at) = date(ended_at)
    THEN add_duration(stats, state, ended_at - started_at, date(started_at))
    ELSE [d \in DOMAIN stats |->
            IF d < date(started_at) \/ d > date(ended_at) THEN stats[d]
            ELSE LET current_time == IF d = date(started_at) THEN started_at
                                     ELSE start_of_day(d)
                 IN  [stats[d] EXCEPT ![state] = @ + (segment_end(d, ended_at) - current_time)]]

\* The hashes of one robot while a handler runs: its record, its cursor and
\* its buckets, with the exception raised (None: none) and the snapshots
\* published on the change channel.
Hashes(rec, cur, stats) ==
    [rec |-> rec, cur |-> cur, stats |-> stats, raised |-> None, events |-> <<>>]

\* DailyStatsService.start_state at time t
start_state(k, new_state, t) ==
    LET closed == IF k.cur.state # None
                  THEN split_and_add_duration(k.stats, k.cur.state, k.cur.started_at, t)
                  ELSE k.stats
    IN  [k EXCEPT !.stats = closed, !.cur.state = new_state, !.cur.started_at = t]

\* The guard of line 126: the cursor is open in operation_state.
cursor_is(cur, operation_state) == cur.state # None /\ cur.state = operation_state

\* RobotStateService._update_operation_state at time t
update_operation_state(k, t) ==
    IF k.rec.status = None THEN k
    ELSE IF k.rec.status \notin RobotStatus THEN [k EXCEPT !.raised = "ValueError"]
    ELSE LET battery_state == IF k.rec.battery_state = Absent THEN 0
                              ELSE k.rec.battery_state[1]
             operation_state == from_robot_status(k.rec.status, battery_state)
         IN  IF operation_state = None THEN k
             ELSE IF ~cursor_is(k.cur, operation_state)
                  THEN start_state(k, operation_state, t)
                  ELSE k

\* RobotStateService._publish_state_change, unless an exception is under way.
publish_state_change(k, r) ==
    IF k.raised # None THEN k
    ELSE [k EXCEPT !.events = @ \o <<state_event(r, k.rec)>>]

\* The charging node "1-0".
ChargingRef == Ref(1, Some(0))
sub_of(ref) == IF ref.sub = Absent THEN 0 ELSE ref.sub[1]
Abs(x) == IF x < 0 THEN -x ELSE x

\* Faulty variant of calculate_node_movement: a change of node counts 1.
calculate_node_movement_hop(prev, curr) ==
    IF prev.id = curr.id THEN Abs(sub_of(curr) - sub_of(prev)) ELSE 1

\* RobotStateService._calculate_node_movement
calculate_node_movement(prev, curr) ==
    IF prev.id = curr.id THEN Abs(sub_of(curr) - sub_of(prev))
    ELSE IF sub_of(prev) = 0 /\ sub_of(curr) = 0 THEN 5
    ELSE 1

\* The node_count bookkeeping of update_position (lines 166-183).
count_nodes(cur, prev_node, current_node) ==
    IF prev_node # Absent /\ prev_node[1] # current_node
    THEN LET movement == calculate_node_movement(prev_node[1], current_node)
             current_count == IF cur.node_count = Absent THEN 0 ELSE cur.node_count[1]
         IN  IF movement > 10 THEN cur
             ELSE [cur EXCEPT !.node_count = Some(current_count + movement)]
    ELSE IF prev_node = Absent THEN [cur EXCEPT !.node_count = Some(0)]
    ELSE cur

\* Faulty variant of derived_status: a robot at its final node is marked DONE.
derived_status_done(rec, current_node) ==
    IF current_node = ChargingRef
    THEN (IF rec.charging_state = Some(1) THEN "CHARGING" ELSE "WAITING")
    ELSE IF rec.final_node = Some(ChargingRef) THEN "RETURN"
    ELSE IF rec.final_node = Some(current_node) THEN "DONE"
    ELSE "WORKING"

\* Faulty variant of derived_status: the charging flag is not looked at.
derived_status_flagless(rec, current_node) ==
    IF current_node = ChargingRef THEN "WAITING"
    ELSE IF rec.final_node = Some(ChargingRef) THEN "RETURN"
    ELSE "WORKING"

\* The status update_position derives (lines 189-219) from the record as
\* written so far.
derived_status(rec, current_node) ==
    IF current_node = ChargingRef
    THEN (IF rec.charging_state = Some(1) THEN "CHARGING" ELSE "WAITING")
    ELSE IF rec.final_node = Some(ChargingRef) THEN "RETURN"
    ELSE "WORKING"

\* RobotStateService.update_position(map, robot, current_node, final_node)
update_position(k, r, t, current_node, final_node) ==
    LET written == [k.rec EXCEPT !.current_node = Some(current_node),
                                 !.final_node = IF final_node # Absent THEN final_node ELSE @]
        rec == [written EXCEPT !.status = derived_status(written, current_node)]
        k1  == [k EXCEPT !.rec = rec,
                         !.cur = count_nodes(k.cur, k.rec.current_node, current_node)]
    IN  publish_state_change(update_operation_state(k1, t), r)

\* Faulty variant of update_battery: the status follows the charging flag at
\* every node.
update_battery_anywhere(k, r, t, battery_state, charging_state) ==
    LET rec == [k.rec EXCEPT !.battery_state = Some(battery_state),
                             !.charging_state = Some(charging_state),
                             !.status = IF charging_state = 1 THEN "CHARGING"
                                        ELSE "WAITING"]
    IN  publish_state_change(update_operation_state([k EXCEPT !.rec = rec], t), r)

\* RobotStateService.update_battery(map, robot, battery_state, charging_state)
update_battery(k, r, t, battery_state, charging_state) ==
    LET written == [k.rec EXCEPT !.battery_state = Some(battery_state),
                                 !.charging_state = Some(charging_state)]
        rec == IF written.current_node = Some(ChargingRef)
               THEN [written EXCEPT !.status = IF charging_state = 1 THEN "CHARGING"
                                               ELSE "WAITING"]
               ELSE written
    IN  publish_state_change(update_operation_state([k EXCEPT !.rec = rec], t), r)

\* RobotStateService.update_status(map, robot, status, node), whole.
RobotStateService_update_status(k, r, t, status, node) ==
    LET rec == update_status(k.rec, status, node)
    IN  publish_state_change(update_operation_state([k EXCEPT !.rec = rec], t), r)

\* robot:path hash without fields.
NoPathRecord == [path |-> Absent, status |-> None, start_node |-> Absent,
                 end_node |-> Absent, actual_end |-> Absent, is_return |-> Absent]

\* No mqtt:connection key in the store, no client at the broker.
NoConnections ==
    /\ connections = <<>>
    /\ sessions = {}

\* The store holds no robot:current_state, robot:daily_stats, robot:path or
\* mqtt:connection key, and the clock shows tick 0.
StoreEmpty ==
    /\ now = 0
    /\ cursor = [r \in Keys |-> NoCursor]
    /\ daily = [r \in Keys |-> NoStats]
    /\ paths = [r \in Keys |-> NoPathRecord]
    /\ NoConnections

\* ------------------------------------------------------------- the request
Request(op, r, n) == [op |-> op, robot |-> r, node |-> n]
Outcome(req, ret, pubs, events) ==
    [op |-> req.op, robot |-> req.robot, node |-> req.node,
     ret |-> ret, pubs |-> pubs, events |-> events]

\* Nothing handled yet.
Fresh == Outcome(Request("start", None, 0), Absent, <<>>, <<>>)

Threads == {"http1", "http2", "mqtt", "redis", "scheduler"}
Idle == [pc |-> "idle", op |-> None, robot |-> None, node |-> 0, copy |-> <<>>,
         todo |-> {}, ret |-> <<>>]

\* --------------------------------------------- handlers, run to completion
\* POST /path/occupy
HttpOccupy(n, r) ==
    LET res == occupy_node(nodes, n, r) IN
    /\ nodes' = res.nodes
    /\ last' = Outcome(Request("occupy", r, n), res.ret, <<>>, <<>>)
    /\ UNCHANGED <<robots, arriveKey, th, now, cursor, daily, paths, connections, sessions>>

\* POST /path/release
HttpRelease(n, r) ==
    LET res == release_node(nodes, n, r) IN
    /\ nodes' = res.nodes
    /\ last' = Outcome(Request("release", r, n), res.ret, <<>>, <<>>)
    /\ UNCHANGED <<robots, arriveKey, th, now, cursor, daily, paths, connections, sessions>>

\* DELETE /path/{map_name}/robot/{robot_id}
HttpReleaseRobot(r) ==
    LET res == release_robot_nodes(nodes, r) IN
    /\ nodes' = res.nodes
    /\ last' = Outcome(Request("release_all", r, 0), res.ret, <<>>, <<>>)
    /\ UNCHANGED <<robots, arriveKey, th, now, cursor, daily, paths, connections, sessions>>

\* CommandHandler._handle_arrive
arrive_reply(r) ==
    [topic |-> <<MapName, r, "server", "arrive">>, payload |-> [yes_or_no |-> "yes"]]

handle_arrive(r, ref) ==
    LET node == parse_node_id(ref)
        k    == RobotStateService_update_status(Hashes(robots[r], cursor[r], daily[r]),
                                                r, now, "DONE", Some(node))
        res  == release_robot_nodes(nodes, r)
    IN  [robots |-> [robots EXCEPT ![r] = k.rec],
         cursor |-> [cursor EXCEPT ![r] = k.cur],
         daily |-> [daily EXCEPT ![r] = k.stats],
         arriveKey |-> [arriveKey EXCEPT ![r] = Some(node)],
         nodes |-> res.nodes,
         out |-> Outcome(Request("arrive", r, node), res.ret,
                         <<arrive_reply(r)>>, k.events)]

MqttArrive(r, ref) ==
    LET h == handle_arrive(r, ref) IN
    /\ robots' = h.robots
    /\ cursor' = h.cursor
    /\ daily' = h.daily
    /\ arriveKey' = h.arriveKey
    /\ nodes' = h.nodes
    /\ last' = h.out
    /\ UNCHANGED <<th, now, paths, connections, sessions>>

\* CommandHandler._handle_remove
remove_event(ref) == [channel |-> <<"smartfarm::robot">>,
                      msg |-> [type |-> "REMOVE", payload |-> ref]]

MqttRemove(r, ref) ==
    LET node == parse_node_id(ref)
        res  == release_node(nodes, node, r)
    IN  /\ nodes' = res.nodes
        /\ last' = Outcome(Request("remove_path", r, node), res.ret,
                           <<>>, <<remove_event(ref)>>)
        /\ UNCHANGED <<robots, arriveKey, th, now, cursor, daily, paths, connections, sessions>>

\* The store drops robot:arrive:{map}:{robot} when its 180 s are over.
ExpireArrive(r) ==
    /\ arriveKey[r] # Absent
    /\ arriveKey' = [arriveKey EXCEPT ![r] = Absent]
    /\ last' = Outcome(Request("expire", r, 0), Absent, <<>>, <<>>)
    /\ UNCHANGED <<nodes, robots, th, now, cursor, daily, paths, connections, sessions>>

Init ==
    /\ nodes = init_node_data(MaxNode)
    /\ robots = [r \in Keys |-> NoRecord]
    /\ arriveKey = [r \in Keys |-> Absent]
    /\ last = Fresh
    /\ th = [t \in Threads |-> Idle]
    /\ StoreEmpty

Next ==
    \/ \E n \in Ids, r \in Robots : HttpOccupy(n, r)
    \/ \E n \in Ids, r \in RobotArgs : HttpRelease(n, r)
    \/ \E r \in Robots : HttpReleaseRobot(r)
    \/ \E r \in Robots, ref \in ArriveRefs : MqttArrive(r, ref)
    \/ \E r \in Robots, ref \in RemoveRefs : MqttRemove(r, ref)
    \/ \E r \in Robots : ExpireArrive(r)

Spec == Init /\ [][Next]_vars

\* ------------------------------------------------- handlers, step by step
\* Each thread of control runs one handler at a time: an HTTP worker runs the
\* path router's endpoints, the MQTT network thread runs CommandHandler, the
\* thread of the store's pub/sub runs RedisCommandHandler, and the scheduler
\* runs the daily reset on a thread of its own. Every
\* store command (HGET, HGETALL, HSET) is one step; the steps of different
\* threads interleave. A finished call stays on its thread with its return
\* value when keep is TRUE, and otherwise the thread is ready for its next request.
HttpThreads == {"http1", "http2"}
MqttThread == "mqtt"

Call(pc, op, r, n, copy, todo) ==
    [pc |-> pc, op |-> op, robot |-> r, node |-> n, copy |-> copy,
     todo |-> todo, ret |-> Absent]
Done(c, ret, keep) ==
    IF keep THEN [c EXCEPT !.pc = "done", !.copy = Absent, !.todo = {}, !.ret = Some(ret)]
    ELSE Idle

\* occupy_node line 132: get_node, and the early returns of lines 133-137.
OccupyRead(t, n, r, keep) ==
    /\ t \in HttpThreads
    /\ th[t].pc = "idle"
    /\ th' = [th EXCEPT ![t] =
                IF occupy_check(nodes, n)
                THEN Call("occupy_write", "occupy", r, n, Some(nodes[n]), {})
                ELSE Done(Call("done", "occupy", r, n, Absent, {}), FALSE, keep)]
    /\ UNCHANGED <<nodes, robots, arriveKey, last, now, cursor, daily, paths, connections, sessions>>

\* occupy_node lines 139-142: the write of the copy read at line 132.
OccupyWrite(t, keep) ==
    /\ th[t].pc = "occupy_write"
    /\ nodes' = hset_node(nodes, th[t].node,
                          [th[t].copy[1] EXCEPT !.occupied = th[t].robot])
    /\ th' = [th EXCEPT ![t] = Done(th[t], TRUE, keep)]
    /\ UNCHANGED <<robots, arriveKey, last, now, cursor, daily, paths, connections, sessions>>

\* release_robot_nodes line 197: get_all_nodes. The loop works on this
\* snapshot: it writes the nodes the snapshot gives to robot_id, each from its
\* snapshot copy.
Snapshot(t, r) == [n \in release_targets(t, r) |-> t[n]]

AfterLoop(c, keep) ==
    IF c.op = "arrive" THEN [c EXCEPT !.pc = "arrive_reply", !.copy = Absent, !.todo = {}]
    ELSE Done(c, 0, keep)

ReleaseAllRead(t, r, keep) ==
    /\ t \in HttpThreads
    /\ th[t].pc = "idle"
    /\ LET c == Call("release_all_loop", "release_all", r, 0,
                     Some(Snapshot(nodes, r)), release_targets(nodes, r))
       IN th' = [th EXCEPT ![t] = IF c.todo = {} THEN AfterLoop(c, keep) ELSE c]
    /\ UNCHANGED <<nodes, robots, arriveKey, last, now, cursor, daily, paths, connections, sessions>>

\* _handle_arrive lines 208-221 up to the snapshot of release_robot_nodes.
ArriveBegin(r, ref, keep) ==
    /\ th[MqttThread].pc = "idle"
    /\ LET node == parse_node_id(ref)
           c == Call("release_all_loop", "arrive", r, node,
                     Some(Snapshot(nodes, r)), release_targets(nodes, r))
           k == RobotStateService_update_status(Hashes(robots[r], cursor[r], daily[r]),
                                                r, now, "DONE", Some(node))
       IN /\ robots' = [robots EXCEPT ![r] = k.rec]
          /\ cursor' = [cursor EXCEPT ![r] = k.cur]
          /\ daily' = [daily EXCEPT ![r] = k.stats]
          /\ arriveKey' = [arriveKey EXCEPT ![r] = Some(node)]
          /\ th' = [th EXCEPT ![MqttThread] = IF c.todo = {} THEN AfterLoop(c, keep) ELSE c]
    /\ UNCHANGED <<nodes, last, now, paths, connections, sessions>>

\* release_robot_nodes lines 201-205: one iteration that writes. The store
\* returns the hash in an order of its own, so any remaining node may be next.
\* The snapshot entries of nodes already handled are never read again and
\* are dropped from the thread's record.
ReleaseAllWrite(t, n, keep) ==
    /\ th[t].pc = "release_all_loop"
    /\ n \in th[t].todo
    /\ nodes' = hset_node(nodes, n, [th[t].copy[1][n] EXCEPT !.occupied = None])
    /\ LET rest == th[t].todo \ {n}
       IN th' = [th EXCEPT ![t] =
                   IF rest = {} THEN AfterLoop(th[t], keep)
                   ELSE [th[t] EXCEPT !.todo = rest,
                                      !.copy = Some([m \in rest |-> th[t].copy[1][m]])]]
    /\ UNCHANGED <<robots, arriveKey, last, now, cursor, daily, paths, connections, sessions>>

\* _handle_arrive lines 225-227: the reply.
ArriveReply(keep) ==
    /\ th[MqttThread].pc = "arrive_reply"
    /\ th' = [th EXCEPT ![MqttThread] = Done(th[MqttThread], 0, keep)]
    /\ last' = Outcome(Request("arrive", th[MqttThread].robot, th[MqttThread].node),
                       Absent, <<arrive_reply(th[MqttThread].robot)>>, <<>>)
    /\ UNCHANGED <<nodes, robots, arriveKey, now, cursor, daily, paths, connections, sessions>>

NextConc ==
    \/ \E t \in HttpThreads, n \in Ids, r \in Robots : OccupyRead(t, n, r, FALSE)
    \/ \E t \in HttpThreads : OccupyWrite(t, FALSE)
    \/ \E t \in HttpThreads, r \in Robots : ReleaseAllRead(t, r, FALSE)
    \/ \E r \in Robots : ArriveBegin(r, Ref(1, Absent), FALSE)
    \/ \E t \in Threads, n \in NodeIds : ReleaseAllWrite(t, n, FALSE)
    \/ ArriveReply(FALSE)

SpecConc == Init /\ [][NextConc]_vars

\* Two occupy requests and nothing else.
NextRace ==
    \/ \E t \in HttpThreads, n \in Ids, r \in Robots : OccupyRead(t, n, r, TRUE)
    \/ \E t \in HttpThreads : OccupyWrite(t, TRUE)

SpecRace == Init /\ [][NextRace]_vars

\* ------------------------------------------------------------------ planner
\* A (node list, direction list) pair as bfs and cut_path return it.
PathOf(path, directions) == [path |-> path, directions |-> directions]
NoPath == PathOf(<<>>, <<>>)

\* Faulty variant of neighbours: r is looked at before l.
neighbours_r_first(node) ==
    <<<<"r", node.r>>, <<"l", node.l>>, <<"u", node.u>>, <<"d", node.d>>>>

\* Faulty variant of neighbours: the labels of l and r are exchanged.
neighbours_mislabelled(node) ==
    <<<<"l", node.r>>, <<"r", node.l>>, <<"u", node.u>>, <<"d", node.d>>>>

\* bfs line 38: the (direction, next_node) pairs of a node, in loop order.
neighbours(node) ==
    <<<<"l", node.l>>, <<"r", node.r>>, <<"u", node.u>>, <<"d", node.d>>>>

\* Faulty variant of queue_item: the path does not take up the new node.
queue_item_stale(current, path, directions) ==
    [current |-> current, path |-> SubSeq(path, 1, Len(path) - 1),
     directions |-> directions]

\* bfs lines 25 and 40: a queue entry (current node, path, directions).
queue_item(current, path, directions) ==
    [current |-> current, path |-> path, directions |-> directions]

\* bfs lines 38-40: the for loop over the neighbours of cur.current from its
\* i-th pair on; gives the queue and the visited set after the loop.
RECURSIVE bfs_for(_, _, _, _, _)
bfs_for(t, cur, i, queue, visited) ==
    IF i > Len(neighbours(t[cur.current]))
    THEN [queue |-> queue, visited |-> visited]
    ELSE LET direction == neighbours(t[cur.current])[i][1]
             next_node == neighbours(t[cur.current])[i][2]
         IN  IF next_node # 0 /\ next_node \notin visited /\ next_node \in DOMAIN t
             THEN bfs_for(t, cur, i + 1,
                          Append(queue, queue_item(next_node,
                                                   Append(cur.path, next_node),
                                                   Append(cur.directions, direction))),
                          visited \cup {next_node})
             ELSE bfs_for(t, cur, i + 1, queue, visited)

\* bfs lines 28-42: the while loop.
RECURSIVE bfs_while(_, _, _, _)
bfs_while(t, end, queue, visited) ==
    IF queue = <<>> THEN NoPath
    ELSE LET cur == Head(queue)
         IN  IF cur.current = end THEN PathOf(cur.path, cur.directions)
             ELSE LET after == bfs_for(t, cur, 1, Tail(queue), visited)
                  IN  bfs_while(t, end, after.queue, after.visited)

\* bfs(map_name, start, end) on the node table t.
bfs(t, start, end) ==
    IF DOMAIN t = {} THEN NoPath
    ELSE IF start \notin DOMAIN t \/ end \notin DOMAIN t THEN NoPath
    ELSE bfs_while(t, end, <<queue_item(start, <<start>>, <<>>)>>, {start})

\* Faulty variant of slice: one element short.
slice_short(seq, k) ==
    SubSeq(seq, 1, (IF k < Len(seq) THEN k ELSE Len(seq)) - 1)

\* Python seq[:k] for k >= 0.
slice(seq, k) == SubSeq(seq, 1, IF k < Len(seq) THEN k ELSE Len(seq))

\* cut_path lines 63-76: the for loop from index i (0-based, as in the
\* source: path[i] is the i+1-st element); gives cut_index.
RECURSIVE cut_scan(_, _, _, _)
cut_scan(t, path, r, i) ==
    IF i >= Len(path) THEN Len(path)
    ELSE LET node_id == path[i + 1]
         IN  IF node_id \notin DOMAIN t THEN i
             ELSE IF t[node_id].occupied # None /\ t[node_id].occupied # r THEN i
             ELSE cut_scan(t, path, r, i + 1)

\* Faulty variant of cut_path: the scan starts at index 0.
cut_path_from_start(t, path, directions, r) ==
    IF path = <<>> THEN NoPath
    ELSE LET cut_index == cut_scan(t, path, r, 0)
         IN  PathOf(slice(path, cut_index), slice(directions, cut_index))

\* cut_path(map_name, path, directions, robot_id) on the node table t.
cut_path(t, path, directions, r) ==
    IF path = <<>> THEN NoPath
    ELSE LET cut_index == cut_scan(t, path, r, 1)
         IN  PathOf(slice(path, cut_index), slice(directions, cut_index))

\* ----------------------------------------------------- planner, its inputs
PlanIds == 1..PlanNodes
\* Neighbour values of a table: 0 (none), a node, or an id that is no node.
LinkValues == 0..(PlanNodes + 1)
\* Start and end of a search: a node, or an id that is no node.
Endpoints == 1..(PlanNodes + 1)

\* The seeded table with at most k neighbour links set to another value.
RECURSIVE Edited(_)
Edited(k) ==
    IF k = 0 THEN {init_node_data(PlanNodes)}
    ELSE LET T == Edited(k - 1)
         IN  T \cup {[t EXCEPT ![n][d] = m] :
                       t \in T, n \in PlanIds, d \in Dirs, m \in LinkValues}

\* The hash of a map that was never seeded.
EmptyTable == [n \in {} |-> SeedNode(n, 0)]

LinkTables == Edited(MaxEdits) \cup {EmptyTable}

\* The seeded table of the occupancy part under every occupancy.
OccupiedTables ==
    {[n \in NodeIds |-> [init_node_data(MaxNode)[n] EXCEPT !.occupied = occ[n]]] :
        occ \in [NodeIds -> RobotArgs]}

\* Node lists of up to MaxLen ids, known or not, repeats allowed.
PathsUpTo(k) == UNION {[1..len -> Ids] : len \in 0..k}
\* A direction list of k entries.
DirList(k) == [i \in 1..k |-> DirOrder[((i - 1) % Len(DirOrder)) + 1]]
\* The direction lists handed in with a node list: as bfs gives them (one
\* shorter), as cut_path gives them after a cut (same length), and one longer.
DirListsFor(path) ==
    {DirList(k) : k \in {j \in {Len(path) - 1, Len(path), Len(path) + 1} : j >= 0}}

\* One search on the table.
Bfs(start, end) ==
    /\ last = Fresh
    /\ LET res == bfs(nodes, start, end)
       IN  last' = [op |-> "bfs", start |-> start, end |-> end,
                    path |-> res.path, directions |-> res.directions]
    /\ UNCHANGED <<nodes, robots, arriveKey, th, now, cursor, daily, paths, connections, sessions>>

InitBfs ==
    /\ nodes \in LinkTables
    /\ robots = [r \in Keys |-> NoRecord]
    /\ arriveKey = [r \in Keys |-> Absent]
    /\ last = Fresh
    /\ th = [t \in Threads |-> Idle]
    /\ StoreEmpty

NextBfs ==
    /\ last = Fresh
    /\ \E start \in Endpoints, end \in Endpoints : Bfs(start, end)

SpecBfs == InitBfs /\ [][NextBfs]_vars

\* One truncation on the table.
CutPath(path, directions, r) ==
    /\ last = Fresh
    /\ LET res == cut_path(nodes, path, directions, r)
       IN  last' = [op |-> "cut_path", robot |-> r,
                    path_in |-> path, directions_in |-> directions,
                    path |-> res.path, directions |-> res.directions]
    /\ UNCHANGED <<nodes, robots, arriveKey, th, now, cursor, daily, paths, connections, sessions>>

\* The truncation of the result of a truncation, on the same table
\* (from_len: the length of the node list the first truncation was given).
CutPathAgain ==
    /\ last.op = "cut_path"
    /\ LET res == cut_path(nodes, last.path, last.directions, last.robot)
       IN  last' = [op |-> "cut_path_again", robot |-> last.robot,
                    from_len |-> Len(last.path_in),
                    path_in |-> last.path, directions_in |-> last.directions,
                    path |-> res.path, directions |-> res.directions]
    /\ UNCHANGED <<nodes, robots, arriveKey, th, now, cursor, daily, paths, connections, sessions>>

InitCut ==
    /\ nodes \in OccupiedTables
    /\ robots = [r \in Keys |-> NoRecord]
    /\ arriveKey = [r \in Keys |-> Absent]
    /\ last = Fresh
    /\ th = [t \in Threads |-> Idle]
    /\ StoreEmpty

NextCut ==
    \/ /\ last = Fresh
       /\ \E path \in PathsUpTo(MaxLen), r \in Robots :
            \E directions \in DirListsFor(path) : CutPath(path, directions, r)
    \/ CutPathAgain

SpecCut == InitCut /\ [][NextCut]_vars

\* ------------------------------------------------------------ occupancy claims
\* C1: when occupy(n, A) and occupy(n, B), A # B, have both run on a free
\* existing node n with their store reads and writes interleaved in any order,
\* exactly one of them returned true and occupied_by of n is the robot of the
\* call that returned true.
C1_ExactlyOneOccupyWins ==
    LET a == th["http1"]
        b == th["http2"]
    IN  (/\ a.pc = "done" /\ b.pc = "done"
         /\ a.op = "occupy" /\ b.op = "occupy"
         /\ a.node = b.node /\ a.node \in NodeIds
         /\ a.robot # b.robot)
        => /\ a.ret[1] # b.ret[1]
           /\ nodes[a.node].occupied = (IF a.ret[1] THEN a.robot ELSE b.robot)

\* Both calls read the node before either wrote it.
C1_BothRead ==
    /\ th["http1"].pc = "occupy_write" /\ th["http2"].pc = "occupy_write"
    /\ th["http1"].node = th["http2"].node
    /\ th["http1"].robot # th["http2"].robot

\* C2: run on its own, occupy(n, r) returns true iff n is in the table and
\* its occupied_by is empty, and then only sets occupied_by of n to r; in
\* every other case (n missing, n occupied by any robot, r included) it returns
\* false and the table is unchanged; every node has one occupant or none.
C2_OccupySequential ==
    [][\A n \in Ids, r \in Robots :
         (last'.op = "occupy" /\ HttpOccupy(n, r)) =>
           LET free == n \in DOMAIN nodes /\ nodes[n].occupied = None
           IN  /\ last'.ret = free
               /\ free => nodes' = [nodes EXCEPT ![n].occupied = r]
               /\ ~free => nodes' = nodes
               /\ \A m \in DOMAIN nodes' : nodes'[m].occupied \in Robots \cup {None}]_vars

\* A robot asked again for the node it holds and was refused.
C2_Refused ==
    /\ last.op = "occupy" /\ last.ret = FALSE
    /\ last.node \in NodeIds
    /\ nodes[last.node].occupied = last.robot

\* C3: release(n, r), from the HTTP endpoint or from remove_path, clears
\* occupied_by of n and returns true iff n is in the table and (r is not given
\* or occupied_by of n is r); otherwise (n held by another robot, n free while
\* r is given, n missing) it returns false and the table is unchanged.
C3_ReleaseSemantics ==
    [][/\ \A n \in Ids, r \in RobotArgs :
            (last'.op = "release" /\ HttpRelease(n, r)) =>
              LET ok == n \in DOMAIN nodes /\ (r = None \/ nodes[n].occupied = r)
              IN  /\ last'.ret = ok
                  /\ ok => nodes' = [nodes EXCEPT ![n].occupied = None]
                  /\ ~ok => nodes' = nodes
       /\ \A r \in Robots, ref \in RemoveRefs :
            (last'.op = "remove_path" /\ MqttRemove(r, ref)) =>
              LET ok == ref.id \in DOMAIN nodes /\ nodes[ref.id].occupied = r
              IN  /\ last'.ret = ok
                  /\ ok => nodes' = [nodes EXCEPT ![ref.id].occupied = None]
                  /\ ~ok => nodes' = nodes]_vars

\* A release in the name of one robot was refused on a node another holds.
C3_RefusedForeign ==
    /\ last.op \in {"release", "remove_path"} /\ last.ret = FALSE
    /\ last.robot # None
    /\ last.node \in NodeIds
    /\ nodes[last.node].occupied \notin {None, last.robot}

\* C4: whenever release_all(A) (from the HTTP endpoint or from arrive) writes a
\* node, interleaved in any way with occupy calls, occupied_by of that node at
\* the moment of the write is empty or A: it never erases another robot's entry.
C4_ReleaseAllKeepsForeignEntries ==
    [][\A t \in Threads, n \in NodeIds :
         ReleaseAllWrite(t, n, FALSE) => nodes[n].occupied \in {None, th[t].robot}]_vars

\* A release_all is between its snapshot and a write while an occupy is in flight.
C4_Overlap ==
    \E t \in Threads, h \in HttpThreads :
        /\ th[t].pc = "release_all_loop"
        /\ th[h].pc = "occupy_write"
        /\ th[h].robot # th[t].robot

\* C5: when the arrive event of robot r has been handled with nothing
\* interleaved, no node has occupied_by = r, every node that r did not hold is
\* as it was, r's status is DONE, r's arrive marker exists, and
\* {"yes_or_no": "yes"} has been published on {map}/{r}/server/arrive.
C5_ArrivePostcondition ==
    [][\A r \in Robots, ref \in ArriveRefs :
         (last'.op = "arrive" /\ MqttArrive(r, ref)) =>
           /\ DOMAIN nodes' = DOMAIN nodes
           /\ \A n \in DOMAIN nodes' : nodes'[n].occupied # r
           /\ \A n \in DOMAIN nodes : nodes[n].occupied # r => nodes'[n] = nodes[n]
           /\ robots'[r].status = "DONE"
           /\ arriveKey'[r] # Absent
           /\ \E i \in DOMAIN last'.pubs :
                last'.pubs[i] = [topic |-> <<MapName, r, "server", "arrive">>,
                                 payload |-> [yes_or_no |-> "yes"]]]_vars

\* An arrive released two nodes while the other robot kept one.
C5_ArrivedHoldingNodes ==
    /\ last.op = "arrive" /\ last.ret >= 2
    /\ \E n \in DOMAIN nodes : nodes[n].occupied \notin {None, last.robot}

\* -------------------------------------------------------------- planner claims
\* Nodes reached from a over at most k non-zero links to known nodes.
Successors(t, S) == {m \in DOMAIN t : \E n \in S, d \in Dirs : t[n][d] = m}
RECURSIVE Reach(_, _, _)
Reach(t, a, k) ==
    IF k = 0 THEN {a}
    ELSE LET R == Reach(t, a, k - 1) IN R \cup Successors(t, R)
Reachable(t, a, b) == b \in Reach(t, a, Cardinality(DOMAIN t))
\* The shortest-path distance of a reachable b from a.
Distance(t, a, b) ==
    CHOOSE k \in 0..Cardinality(DOMAIN t) :
        /\ b \in Reach(t, a, k)
        /\ \A j \in 0..(k - 1) : b \notin Reach(t, a, j)

\* C6: for known nodes a, b with b reachable from a over non-zero links,
\* bfs(a, b) gives a node list that starts with a, ends with b and has
\* distance(a, b) + 1 entries; bfs(a, a) gives ([a], []).
C6_BfsShortest ==
    last.op = "bfs" =>
      /\ (/\ last.start \in DOMAIN nodes /\ last.end \in DOMAIN nodes
          /\ Reachable(nodes, last.start, last.end))
         => /\ last.path # <<>>
            /\ last.path[1] = last.start
            /\ last.path[Len(last.path)] = last.end
            /\ Len(last.path) = Distance(nodes, last.start, last.end) + 1
      /\ (last.start \in DOMAIN nodes /\ last.start = last.end)
         => last.path = <<last.start>> /\ last.directions = <<>>

\* A search took a link that is not in the seeded line and got a route
\* shorter than the line's.
C6_ShortcutTaken ==
    /\ last.op = "bfs"
    /\ Len(last.path) = 2
    /\ Distance(init_node_data(PlanNodes), last.start, last.end) = PlanNodes - 1

\* C7: for every non-empty result (nodes, dirs) of bfs, dirs has one entry
\* less than nodes, the neighbour of nodes[i] in direction dirs[i] is nodes[i+1]
\* for every i, and no node occurs twice.
C7_BfsWellFormed ==
    (last.op = "bfs" /\ last.path # <<>>) =>
      /\ Len(last.directions) = Len(last.path) - 1
      /\ \A i \in 1..(Len(last.path) - 1) :
           nodes[last.path[i]][last.directions[i]] = last.path[i + 1]
      /\ \A i, j \in 1..Len(last.path) : i # j => last.path[i] # last.path[j]

\* A route of three nodes that goes up or down somewhere.
C7_RouteWithTurn ==
    /\ last.op = "bfs"
    /\ Len(last.path) >= 3
    /\ \E i \in 1..Len(last.directions) : last.directions[i] \in {"u", "d"}

\* Reference search: nodes in order of discovery, each with the node and the
\* direction it was discovered from, neighbours tried in the order l, r, u, d,
\* 0 and ids that are no nodes skipped.
RECURSIVE RefTry(_, _, _, _, _)
RefTry(t, n, i, order, parent) ==
    IF i > Len(DirOrder) THEN [order |-> order, parent |-> parent]
    ELSE LET d == DirOrder[i]
             m == t[n][d]
         IN  IF m # 0 /\ m \in DOMAIN t /\ m \notin DOMAIN parent
             THEN RefTry(t, n, i + 1, Append(order, m),
                         [x \in DOMAIN parent \cup {m} |->
                            IF x = m THEN [from |-> n, dir |-> d] ELSE parent[x]])
             ELSE RefTry(t, n, i + 1, order, parent)

RECURSIVE RefScan(_, _, _, _)
RefScan(t, k, order, parent) ==
    IF k > Len(order) THEN parent
    ELSE LET after == RefTry(t, order[k], 1, order, parent)
         IN  RefScan(t, k + 1, after.order, after.parent)

RECURSIVE RefRoute(_, _)
RefRoute(parent, n) ==
    IF parent[n].from = 0 THEN PathOf(<<n>>, <<>>)
    ELSE LET before == RefRoute(parent, parent[n].from)
         IN  PathOf(Append(before.path, n), Append(before.directions, parent[n].dir))

RefBfs(t, a, b) ==
    IF a \notin DOMAIN t \/ b \notin DOMAIN t THEN NoPath
    ELSE LET parent == RefScan(t, 1, <<a>>, [x \in {a} |-> [from |-> 0, dir |-> None]])
         IN  IF b \in DOMAIN parent THEN RefRoute(parent, b) ELSE NoPath

\* C8: for every table and every pair of endpoints, bfs gives the result of
\* the reference breadth-first search that tries each node's neighbours in the
\* order l, r, u, d; among several shortest routes it gives that one.
C8_BfsVisitOrder ==
    last.op = "bfs" =>
      PathOf(last.path, last.directions) = RefBfs(nodes, last.start, last.end)

\* A search whose end had two shortest routes, over different middle nodes.
C8_TwoShortestRoutes ==
    /\ last.op = "bfs"
    /\ Len(last.path) = 3
    /\ \E m \in DOMAIN nodes, d1 \in Dirs, d2 \in Dirs :
          /\ m \notin {last.path[1], last.path[2], last.path[3]}
          /\ nodes[last.path[1]][d1] = m
          /\ nodes[m][d2] = last.path[3]

\* The first k elements of seq (all of them if there are fewer).
Prefix(seq, k) == [i \in 1..(IF k < Len(seq) THEN k ELSE Len(seq)) |-> seq[i]]
\* The positions after the first whose node is no node of the table or is
\* occupied by a robot other than r.
BlockedAt(t, path, r) ==
    {j \in 2..Len(path) :
        \/ path[j] \notin DOMAIN t
        \/ t[path[j]].occupied \notin {None, r}}
\* How many nodes stay: those before the first blocked position.
Kept(t, path, r) ==
    IF BlockedAt(t, path, r) = {} THEN Len(path)
    ELSE (CHOOSE j \in BlockedAt(t, path, r) :
            \A k \in BlockedAt(t, path, r) : j <= k) - 1

\* C9: cut_path(nodes, dirs, robot) gives (nodes[:i], dirs[:i]) for the
\* smallest index i >= 1 whose node does not exist or is occupied by another
\* robot, and the whole path when there is no such index (the direction list
\* as it is when it is not longer than the node list); index 0 is never looked
\* at, so a start node another robot holds shortens nothing.
C9_CutAtFirstBlocked ==
    last.op = "cut_path" =>
      LET i == Kept(nodes, last.path_in, last.robot)
      IN  /\ last.path = Prefix(last.path_in, i)
          /\ last.directions = Prefix(last.directions_in, i)
          /\ (/\ BlockedAt(nodes, last.path_in, last.robot) = {}
              /\ Len(last.directions_in) <= Len(last.path_in))
             => /\ last.path = last.path_in
                /\ last.directions = last.directions_in

\* A path whose start another robot holds was cut further on, not at the start.
C9_ForeignStartKept ==
    /\ last.op = "cut_path"
    /\ Len(last.path_in) = 3
    /\ last.path_in[1] \in DOMAIN nodes
    /\ nodes[last.path_in[1]].occupied \notin {None, last.robot}
    /\ Len(last.path) = 2

\* C10: cut_path leaves the store as it is, and on one table the truncation of
\* a truncation's result is that result.
C10_CutPathIdempotent ==
    [][/\ last'.op \in {"cut_path", "cut_path_again"}
          => nodes' = nodes /\ robots' = robots /\ arriveKey' = arriveKey
       /\ last'.op = "cut_path_again"
          => last'.path = last.path /\ last'.directions = last.directions]_vars

\* A truncation that shortened its path was applied again.
C10_CutTwice ==
    /\ last.op = "cut_path_again"
    /\ Len(last.path_in) < last.from_len
    /\ Len(last.path) >= 2

\* ------------------------------------------------------------ path strings
\* A string is the sequence of its characters.
Digit == <<"0", "1", "2", "3", "4", "5", "6", "7", "8", "9">>

\* str(n) of an int n >= 0, as an f-string field renders it.
RECURSIVE str(_)
str(n) ==
    IF n < 10 THEN <<Digit[n + 1]>>
    ELSE str(n \div 10) \o <<Digit[(n % 10) + 1]>>

\* directions[0], or an index of the loop, beyond the list.
IndexError == <<"IndexError">>

\* Faulty variant of format_items: the loop runs over range(1, len(path)).
RECURSIVE format_items_to_end(_, _, _, _)
format_items_to_end(path, directions, i, result) ==
    IF i >= Len(path) THEN result
    ELSE IF i + 1 > Len(directions) THEN IndexError
    ELSE format_items_to_end(path, directions, i + 1,
             result \o str(path[i + 1]) \o <<",", directions[i + 1], "/">>)

\* The loop of format_path from index i (0-based, as in the source).
RECURSIVE format_items(_, _, _, _)
format_items(path, directions, i, result) ==
    IF i >= Len(path) - 1 THEN result
    ELSE IF i + 1 > Len(directions) THEN IndexError
    ELSE format_items(path, directions, i + 1,
             result \o str(path[i + 1]) \o <<",", directions[i + 1], "/">>)

\* Faulty variant of format_path: no "," between start and its direction.
format_path_unseparated(end, start, path, directions) ==
    IF directions = <<>> THEN IndexError
    ELSE format_items(path, directions, 1,
             str(end) \o <<"!">> \o str(start) \o <<directions[1], "/">>)

\* format_path(end, start, path, directions).
format_path(end, start, path, directions) ==
    IF directions = <<>> THEN IndexError
    ELSE format_items(path, directions, 1,
             str(end) \o <<"!">> \o str(start) \o <<",", directions[1], "/">>)

\* ------------------------------------------------------- POST /path (find_path)
\* The tables of a search with occupancy: the link tables with no node held,
\* and the tables with one edit fewer under every set of nodes held by r2 (the
\* request comes from r1, from r2 or names no robot).
HeldTables ==
    {[n \in PlanIds |-> [t[n] EXCEPT !.occupied = IF n \in held THEN "r2" ELSE None]] :
        t \in Edited(MaxEdits - 1), held \in SUBSET PlanIds}
PlanTables == LinkTables \cup HeldTables

\* The seeded line of LineNodes nodes, free or with one node held by r2.
LineIds == 1..LineNodes
LineTables ==
    {init_node_data(LineNodes)} \cup
    {[init_node_data(LineNodes) EXCEPT ![n].occupied = "r2"] : n \in LineIds}

\* Start and end of a search on table t: a node, or an id that is no node.
EndpointsOf(t) == IF t \in LineTables THEN 1..(LineNodes + 1) ELSE Endpoints

\* The response of find_path: its HTTP status and, on 200, the path string.
PathResponse(req, status, bfs_path, route, path_str) ==
    [op |-> "find_path", start |-> req.start, end |-> req.end, robot |-> req.robot,
     status |-> status, bfs_path |-> bfs_path,
     path |-> route.path, directions |-> route.directions, path_str |-> path_str]

find_path(t, req) ==
    LET found == bfs(t, req.start, req.end)
    IN  IF found.path = <<>> THEN PathResponse(req, 404, <<>>, NoPath, <<>>)
        ELSE LET route == IF req.robot # None
                          THEN cut_path(t, found.path, found.directions, req.robot)
                          ELSE found
             IN  IF req.robot # None /\ Len(route.path) <= 1
                 THEN PathResponse(req, 409, found.path, route, <<>>)
                 ELSE LET actual_end == route.path[Len(route.path)]
                          path_str == format_path(actual_end, req.start,
                                                  route.path, route.directions)
                      IN  IF path_str = IndexError
                          THEN PathResponse(req, 500, found.path, route, <<>>)
                          ELSE PathResponse(req, 200, found.path, route, path_str)

FindPath(start, end, r) ==
    /\ last = Fresh
    /\ last' = find_path(nodes, [start |-> start, end |-> end, robot |-> r])
    /\ UNCHANGED <<nodes, robots, arriveKey, th, now, cursor, daily, paths, connections, sessions>>

InitPath ==
    /\ nodes \in PlanTables \cup LineTables
    /\ robots = [r \in Keys |-> NoRecord]
    /\ arriveKey = [r \in Keys |-> Absent]
    /\ last = Fresh
    /\ th = [t \in Threads |-> Idle]
    /\ StoreEmpty

NextPath ==
    /\ last = Fresh
    /\ \E start \in EndpointsOf(nodes), end \in EndpointsOf(nodes), r \in RobotArgs :
         FindPath(start, end, r)

SpecPath == InitPath /\ [][NextPath]_vars

\* --------------------------------------------- device bus: path_plan
\* Positional parameters of format_path, and positional arguments of its call
\* in PathCalculationService._calculate_forward_path.
FormatPathParams == 4
ForwardCallArgs == 7

\* "{node}-{sub}"
display(node, sub) == str(node) \o <<"-">> \o str(sub)

\* A calculated path: its string (Absent when there is none), the node the
\* route ends at, the routes found and kept, the (node, sub) segments of a
\* return, and the exception raised.
Calculated(path_str, actual_end, found, route, segments, raised) ==
    [path_str |-> path_str, actual_end |-> actual_end, bfs_path |-> found.path,
     path |-> route.path, directions |-> route.directions,
     segments |-> segments, raised |-> raised]

\* Faulty variant of forward_path_str: the call hands over four arguments.
forward_path_str_four(actual_end, start_node, path, directions) ==
    [path_str |-> Some(format_path(actual_end, start_node, path, directions)),
     raised |-> None]

\* Line 62 of _calculate_forward_path: the call of format_path.
forward_path_str(actual_end, start_node, path, directions) ==
    IF ForwardCallArgs # FormatPathParams
    THEN [path_str |-> Absent, raised |-> "TypeError"]
    ELSE [path_str |-> Some(format_path(actual_end, start_node, path, directions)),
          raised |-> None]

\* PathCalculationService._calculate_forward_path
calculate_forward_path(t, start_node, end_node, robot_id) ==
    LET found == bfs(t, start_node, end_node)
        route == cut_path(t, found.path, found.directions, robot_id)
    IN  IF found.path = <<>> THEN Calculated(Absent, end_node, found, NoPath, <<>>, None)
        ELSE IF Len(route.path) <= 1
             THEN Calculated(Absent, end_node, found, route, <<>>, None)
        ELSE LET actual_end == route.path[Len(route.path)]
                 s == forward_path_str(actual_end, start_node, route.path, route.directions)
             IN  Calculated(s.path_str, actual_end, found, route, <<>>, s.raised)

\* Faulty variant of sub_nodes: every node of the route gets all sub-positions
\* from 4 down to 0.
sub_nodes_all(start_node, current_sub, path) ==
    [i \in 1..(5 * Len(path)) |->
        [node |-> path[((i - 1) \div 5) + 1], sub |-> 4 - ((i - 1) % 5)]]

\* The list sub_nodes of _calculate_return_path (lines 110-118, 158-160),
\* without the direction every entry shares.
sub_nodes(start_node, current_sub, path) ==
    IF current_sub # 0
    THEN [i \in 1..current_sub |-> [node |-> start_node, sub |-> current_sub - i]]
         \o [i \in 1..(Len(path) - 1) |-> [node |-> path[i + 1], sub |-> 0]]
    ELSE [i \in 1..Len(path) |-> [node |-> path[i], sub |-> 0]]

\* The body of a return string: the entries 1 .. len-2 of sub_nodes.
RECURSIVE return_items(_, _, _, _)
return_items(segments, d, i, result) ==
    IF i >= Len(segments) - 1 THEN result
    ELSE return_items(segments, d, i + 1,
             result \o display(segments[i + 1].node, segments[i + 1].sub) \o <<",", d, "/">>)

\* PathCalculationService._calculate_return_path; start_display is the
\* sub-position of the request's current_node, Absent for a bare id.
calculate_return_path(t, start_node, end_node, robot_id, start_display) ==
    LET current_sub == IF start_display = Absent THEN 0 ELSE start_display[1]
        found == bfs(t, start_node, end_node)
        route == cut_path(t, found.path, found.directions, robot_id)
    IN  IF found.path = <<>> THEN Calculated(Absent, end_node, found, NoPath, <<>>, None)
        ELSE IF Len(route.path) <= 1
             THEN Calculated(Absent, end_node, found, route, <<>>, None)
        ELSE LET actual_end == route.path[Len(route.path)]
                 return_direction == IF route.directions # <<>> THEN route.directions[1]
                                     ELSE "r"
                 segments == sub_nodes(start_node, current_sub, route.path)
                 first == segments[1]
                 final == segments[Len(segments)]
                 head == display(end_node, 0) \o <<"/", return_direction, "~">>
                         \o display(final.node, final.sub) \o <<"!">>
                         \o display(first.node, first.sub) \o <<",", return_direction, "/">>
             IN  Calculated(Some(return_items(segments, return_direction, 1, head)),
                            actual_end, found, route, segments, None)

\* Faulty variant of no_path_str: start and end change places.
no_path_str_swapped(start_node, end_node) ==
    str(start_node) \o <<"!", "/", "d", "~">> \o str(end_node)

\* "{end_node}!/d~{start_node}"
no_path_str(start_node, end_node) ==
    str(end_node) \o <<"!", "/", "d", "~">> \o str(start_node)

path_reply(r, path_str) ==
    [topic |-> <<MapName, r, "server", "path_plan">>, payload |-> [path |-> path_str]]

\* What a handler leaves behind: the hashes of its robot, the robot:path hash,
\* the bus messages published, and the exception it ended with.
Sent(k, path_rec, pubs, raised) ==
    [k |-> k, path_rec |-> path_rec, pubs |-> pubs,
     raised |-> IF raised # None THEN raised ELSE k.raised]

\* PathCalculationService._send_path_response at time t
send_path_response(k, path_rec, r, t, start_node, end_node, path_str, actual_end, is_return) ==
    IF path_str = Absent
    THEN LET s == no_path_str(start_node, end_node)
         IN  Sent(k, [path_rec EXCEPT !.path = Some(s), !.status = "blocked",
                                      !.start_node = Some(start_node),
                                      !.end_node = Some(end_node)],
                  <<path_reply(r, s)>>, None)
    ELSE LET saved == [path |-> path_str, status |-> "success",
                       start_node |-> Some(start_node), end_node |-> Some(end_node),
                       actual_end |-> Some(actual_end), is_return |-> Some(is_return)]
             k1 == IF is_return
                   THEN RobotStateService_update_status(k, r, t, "return", Absent)
                   ELSE IF start_node = 2
                        THEN RobotStateService_update_status(k, r, t, "moving", Absent)
                        ELSE k
         IN  Sent(k1, saved, <<path_reply(r, path_str[1])>>, None)

\* CommandHandler._determine_destination
determine_destination(final_node) ==
    IF final_node = 0 \/ final_node = 2
    THEN [destination |-> 2, is_return |-> TRUE]
    ELSE [destination |-> final_node, is_return |-> FALSE]

\* CommandHandler._handle_path for a final_node without "-", on table t:
\* update_position, then calculate_and_send_path. An exception ends the
\* handler where it is raised; MQTTService._on_message logs it.
handle_path(t, time, k, path_rec, r, current_node, final_node) ==
    LET current_node_id == parse_node_id(current_node)
        dest == determine_destination(final_node)
        k1 == update_position(k, r, time, Ref(current_node_id, Absent),
                              Some(Ref(dest.destination, Absent)))
        calc == IF dest.is_return
                THEN calculate_return_path(t, current_node_id, dest.destination, r,
                                           current_node.sub)
                ELSE calculate_forward_path(t, current_node_id, dest.destination, r)
        sent == IF k1.raised # None THEN Sent(k1, path_rec, <<>>, None)
                ELSE IF calc.raised # None THEN Sent(k1, path_rec, <<>>, calc.raised)
                ELSE send_path_response(k1, path_rec, r, time, current_node_id,
                                        dest.destination, calc.path_str,
                                        calc.actual_end, dest.is_return)
    IN  [sent |-> sent, calc |-> calc, dest |-> dest]

\* The outcome of a path_plan message.
PlanOutcome(r, current_node, final_node, h) ==
    [op |-> "path_plan", robot |-> r, current_node |-> current_node,
     final_node |-> final_node, destination |-> h.dest.destination,
     is_return |-> h.dest.is_return, bfs_path |-> h.calc.bfs_path,
     path |-> h.calc.path, directions |-> h.calc.directions,
     segments |-> h.calc.segments,
     pubs |-> h.sent.pubs, events |-> h.sent.k.events, raised |-> h.sent.raised]

\* The node table of the map of key r: a map that was never seeded has none.
nodes_of(r) == IF r \in Robots THEN nodes ELSE <<>>

\* {map}/{robot}/robot/path_plan with {current_node, final_node}
MqttPathPlan(r, current_node, final_node) ==
    \E h \in {handle_path(nodes_of(r), now, Hashes(robots[r], cursor[r], daily[r]), paths[r],
                            r, current_node, final_node)} :
        /\ robots' = [robots EXCEPT ![r] = h.sent.k.rec]
        /\ cursor' = [cursor EXCEPT ![r] = h.sent.k.cur]
        /\ daily' = [daily EXCEPT ![r] = h.sent.k.stats]
        /\ paths' = [paths EXCEPT ![r] = h.sent.path_rec]
        /\ last' = PlanOutcome(r, current_node, final_node, h)
        /\ UNCHANGED <<nodes, arriveKey, th, now, connections, sessions>>

\* The seeded table with one neighbour link taken out.
BrokenTables ==
    {[init_node_data(PlanNodes) EXCEPT ![n][d] = 0] : n \in PlanIds, d \in Dirs}

\* The tables a plan is asked on: the seeded line, free or with one node held
\* by r2, the tables with one edit fewer under every set of nodes held by r2,
\* and the seeded table with a link taken out.
\* current_node of a request: a bare id, or an id with sub-position 0 or 3.
PlanRefs(t) == {Ref(n, sub) : n \in EndpointsOf(t), sub \in {Absent, Some(0), Some(3)}}
\* final_node of a request without "-": an id, or the return signal 0.
PlanFinals(t) == EndpointsOf(t) \cup {0}

InitPlan ==
    /\ nodes \in LineTables \cup HeldTables \cup BrokenTables
    /\ robots = [r \in Keys |-> NoRecord]
    /\ arriveKey = [r \in Keys |-> Absent]
    /\ last = Fresh
    /\ th = [t \in Threads |-> Idle]
    /\ StoreEmpty

NextPlan ==
    /\ last = Fresh
    /\ \E r \in Robots, current_node \in PlanRefs(nodes), final_node \in PlanFinals(nodes) :
         MqttPathPlan(r, current_node, final_node)

SpecPlan == InitPlan /\ [][NextPlan]_vars

\* ------------------------------------------------------- path string claims
\* The concatenation of a list of strings.
RECURSIVE Concat(_)
Concat(parts) == IF parts = <<>> THEN <<>> ELSE Head(parts) \o Concat(Tail(parts))

\* One "{node},{dir}/" item.
Item(node, dir) == str(node) \o <<",", dir, "/">>

\* What the claim describes for a path of at least two nodes.
Described(path, directions) ==
    str(path[Len(path)]) \o <<"!">> \o Item(path[1], directions[1])
    \o Concat([i \in 1..(Len(path) - 2) |-> Item(path[i + 1], directions[i + 1])])

\* The number of items of a string: its "/" characters.
Items(s) == Cardinality({i \in 1..Len(s) : s[i] = "/"})

\* C11: for every path (nodes, dirs) of at least two nodes that bfs followed
\* by cut_path produces, format_path(nodes[-1], nodes[0], nodes, dirs) is
\* "{end}!{start},{dir}/" followed by one "{node},{dir}/" item per interior
\* node nodes[1..len-2] in order; the final node stands only before "!" and
\* has no item in the body.
C11_FormatPathShape ==
    (last.op = "find_path" /\ last.status \in {200, 500} /\ Len(last.path) >= 2)
    => /\ last.status = 200
       /\ last.path_str = Described(last.path, last.directions)
       /\ Items(last.path_str) = Len(last.path) - 1
       /\ \A i \in 1..(Len(last.path) - 1) : last.path[i] # last.path[Len(last.path)]

\* A route of three nodes or more was cut short and formatted.
C11_CutRouteFormatted ==
    /\ last.op = "find_path" /\ last.status = 200
    /\ Len(last.path) >= 3
    /\ Len(last.path) < Len(last.bfs_path)

\* The reading of a string by the grammar
\*   NORMAL := end "!" start "," dir "/" (node "," dir "/")*
\* First position from pos on that holds character c, 0 if there is none.
IndexOf(s, c, pos) ==
    LET hits == {i \in pos..Len(s) : s[i] = c}
    IN  IF hits = {} THEN 0 ELSE CHOOSE i \in hits : \A j \in hits : i <= j

IsNumber(s) == s # <<>> /\ \A i \in 1..Len(s) : \E k \in 1..10 : Digit[k] = s[i]

RECURSIVE ParseInt(_)
ParseInt(s) ==
    IF s = <<>> THEN 0
    ELSE 10 * ParseInt(SubSeq(s, 1, Len(s) - 1))
         + (CHOOSE k \in 0..9 : Digit[k + 1] = s[Len(s)])

Malformed == [ok |-> FALSE, end |-> 0, items |-> <<>>]

\* The items node "," dir "/" from position pos to the end of s.
RECURSIVE ParseItems(_, _)
ParseItems(s, pos) ==
    IF pos > Len(s) THEN <<>>
    ELSE LET comma == IndexOf(s, ",", pos)
         IN  IF \/ comma = 0 \/ comma + 2 > Len(s)
                \/ ~IsNumber(SubSeq(s, pos, comma - 1))
                \/ s[comma + 1] \notin Dirs \/ s[comma + 2] # "/"
             THEN <<Malformed>>
             ELSE LET rest == ParseItems(s, comma + 3)
                  IN  IF rest # <<>> /\ rest[1] = Malformed THEN <<Malformed>>
                      ELSE <<[node |-> ParseInt(SubSeq(s, pos, comma - 1)),
                              dir |-> s[comma + 1]]>> \o rest

\* end, and the items (start first) of a NORMAL string.
ParseNormal(s) ==
    LET bang == IndexOf(s, "!", 1)
    IN  IF bang = 0 \/ ~IsNumber(SubSeq(s, 1, bang - 1)) THEN Malformed
        ELSE LET items == ParseItems(s, bang + 1)
             IN  IF items = <<>> \/ items[1] = Malformed THEN Malformed
                 ELSE [ok |-> TRUE, end |-> ParseInt(SubSeq(s, 1, bang - 1)),
                       items |-> items]

\* The string format_path gives for what was read.
Reemit(p) ==
    format_path(p.end, p.items[1].node,
                [i \in 1..(Len(p.items) + 1) |->
                    IF i <= Len(p.items) THEN p.items[i].node ELSE p.end],
                [i \in 1..Len(p.items) |-> p.items[i].dir])

\* C12: for every bfs path of at least two nodes, reading the string of
\* format_path by the NORMAL grammar (end, start, first direction, then the
\* (node, dir) items) and emitting what was read with format_path gives the
\* same string; what was read is the route: its end, and its nodes before the
\* end with their directions.
C12_FormatPathRoundTrip ==
    (last.op = "find_path" /\ last.status \in {200, 500} /\ Len(last.path) >= 2)
    => LET p == ParseNormal(last.path_str)
       IN  /\ p.ok
           /\ Reemit(p) = last.path_str
           /\ p.end = last.path[Len(last.path)]
           /\ Len(p.items) = Len(last.path) - 1
           /\ \A i \in 1..Len(p.items) :
                /\ p.items[i].node = last.path[i]
                /\ p.items[i].dir = last.directions[i]

\* A string with a two-digit id and two items or more was read back.
C12_TwoDigitRouteRead ==
    /\ last.op = "find_path" /\ last.status = 200
    /\ last.path[Len(last.path)] >= 10
    /\ Len(ParseNormal(last.path_str).items) >= 2

\* ------------------------------------------------------- path_plan claims
\* The request is for a destination that is no return signal, from a bare
\* node id, and its BFS route of two nodes or more has no node after the
\* start that another robot holds.
ForwardUnblocked ==
    /\ last.op = "path_plan" /\ ~last.is_return
    /\ last.current_node.sub = Absent
    /\ Len(last.bfs_path) >= 2
    /\ \A i \in 2..Len(last.bfs_path) :
         nodes[last.bfs_path[i]].occupied \in {None, last.robot}

\* C13: an admitted path_plan message with bare node ids, a destination that
\* is no return signal and a BFS path with no node after the start held by
\* another robot is answered on {map}/{robot}/server/path_plan with
\* {"path": P}, P = format_path(destination, start, nodes, dirs).
C13_ForwardPathPublished ==
    ForwardUnblocked
    => last.pubs = <<path_reply(last.robot,
                       format_path(last.destination, last.current_node.id,
                                   last.bfs_path, last.directions))>>

\* Robot r1 asked for the way from node 5 to node 10 on the free line.
C13_FiveToTen ==
    /\ ForwardUnblocked
    /\ last.robot = "r1" /\ last.current_node.id = 5 /\ last.destination = 10
    /\ last.bfs_path = <<5, 6, 7, 8, 9, 10>>
    /\ \A n \in DOMAIN nodes : nodes[n].occupied = None

\* The reply of the latest path_plan message is a path and not the sentinel.
PathPublished ==
    /\ last.op = "path_plan" /\ last.pubs # <<>>
    /\ last.pubs[1].payload.path # no_path_str(last.current_node.id, last.destination)

\* The request is for a destination that is no return signal, from a bare
\* node id, and its BFS route keeps two nodes or more before its first node
\* held by another robot.
ForwardCut ==
    /\ last.op = "path_plan" /\ ~last.is_return
    /\ last.current_node.sub = Absent
    /\ BlockedAt(nodes, last.bfs_path, last.robot) # {}
    /\ Kept(nodes, last.bfs_path, last.robot) >= 2

\* C14: every path other than the sentinel published in answer to a path_plan
\* request of robot r ends at the last node before the first node of the BFS
\* path that another robot holds, and has after its start no node another
\* robot held when it was computed; a request whose route is cut after two
\* nodes or more is answered with that shortened path (5 -> 10 with node 8
\* held by r2: "7!5,l/6,l/").
C14_PublishedPathStopsBeforeOccupied ==
    /\ PathPublished
       => /\ last.path = Prefix(last.bfs_path, Kept(nodes, last.bfs_path, last.robot))
          /\ \A i \in 2..Len(last.path) :
               nodes[last.path[i]].occupied \in {None, last.robot}
    /\ ForwardCut
       => LET kept == Prefix(last.bfs_path, Kept(nodes, last.bfs_path, last.robot))
          IN  last.pubs = <<path_reply(last.robot,
                              format_path(kept[Len(kept)], last.current_node.id,
                                          kept, last.directions))>>

\* Robot r1 asked for the way from node 5 to node 10 while r2 held node 8.
C14_EightHeld ==
    /\ ForwardCut
    /\ last.robot = "r1" /\ last.current_node.id = 5 /\ last.destination = 10
    /\ nodes[8].occupied = "r2"
    /\ last.path = <<5, 6, 7>>

\* The sentinel "{end}!/d~{start}".
Sentinel(start, end) == str(end) \o <<"!", "/", "d", "~">> \o str(start)

\* The request has no route, or the route is cut to its start.
NoRouteOrBlocked ==
    /\ last.op = "path_plan"
    /\ \/ last.bfs_path = <<>>
       \/ Kept(nodes, last.bfs_path, last.robot) <= 1

ReturnRouted ==
    /\ last.op = "path_plan" /\ last.is_return
    /\ Len(last.path) >= 2

\* The string of a return: the last segment in the end slot, the first in the
\* start slot, the others in the body.
ReturnString(home, segs, d) ==
    display(home, 0) \o <<"/", d, "~">>
    \o display(segs[Len(segs)].node, segs[Len(segs)].sub) \o <<"!">>
    \o display(segs[1].node, segs[1].sub) \o <<",", d, "/">>
    \o Concat([i \in 1..(Len(segs) - 2) |->
                 display(segs[i + 1].node, segs[i + 1].sub) \o <<",", d, "/">>])

round_half_up(num, den) == (2 * num + den) \div (2 * den)

\* round(num / den), ties to the even integer (Python 3 round).
round_half_even(num, den) ==
    LET q == num \div den
        r == num % den
    IN  IF 2 * r > den THEN q + 1
        ELSE IF 2 * r < den THEN q
        ELSE IF q % 2 = 0 THEN q ELSE q + 1

\* CommandHandler._calculate_battery_percent for a voltage of decivolts tenths
\* of a volt: (v - 13.5) / 3.0 * 100 with v lowered by (16.5 - v) * 0.07 while
\* charging, rounded and clamped to 0..100.
calculate_battery_percent(decivolts, charging_state) ==
    LET num == IF charging_state = 1 THEN 107 * decivolts - 14655
               ELSE 100 * decivolts - 13500
        battery_percent == round_half_even(num, 30)
    IN  IF battery_percent < 0 THEN 0
        ELSE IF battery_percent > 100 THEN 100 ELSE battery_percent

\* What a handler that only touches the hashes of its robot leaves behind.
Handled(k, pubs, events) == [k |-> k, pubs |-> pubs, events |-> events]

\* CommandHandler._handle_battery at time t
handle_battery(k, r, t, decivolts, charging_state) ==
    LET battery_percent == calculate_battery_percent(decivolts, charging_state)
        k1 == update_battery(k, r, t, battery_percent, charging_state)
    IN  Handled(k1, <<>>, k1.events)

\* CommandHandler._handle_error at time t: an exception of update_status ends
\* the handler before the publish.
error_event(payload) == [channel |-> <<"smartfarm::robot">>,
                         msg |-> [type |-> "ERROR", payload |-> payload]]

\* A payload that json.loads or the payload model of the command rejects.
Undecodable == "undecodable"

handle_error(k, r, t, payload) ==
    LET k1 == RobotStateService_update_status(k, r, t, "ERROR", Absent)
    IN  IF k1.raised # None THEN Handled(k1, <<>>, k1.events)
        ELSE IF payload = Undecodable
             THEN Handled([k1 EXCEPT !.raised = "JSONDecodeError"], <<>>, k1.events)
        ELSE Handled(k1, <<>>, k1.events \o <<error_event(payload)>>)

\* The outcome of a message that names a robot and no node.
RobotOutcome(op, r, h) ==
    [op |-> op, robot |-> r, pubs |-> h.pubs, events |-> h.events, raised |-> h.k.raised]

\* The hashes of robot r are replaced by those a handler leaves.
Store(r, k) ==
    /\ robots' = [robots EXCEPT ![r] = k.rec]
    /\ cursor' = [cursor EXCEPT ![r] = k.cur]
    /\ daily' = [daily EXCEPT ![r] = k.stats]

\* {map}/{robot}/robot/battery with {battery_state, battery_charging_state}
MqttBattery(r, decivolts, charging_state) ==
    \E h \in {handle_battery(Hashes(robots[r], cursor[r], daily[r]), r, now,
                             decivolts, charging_state)} :
        /\ Store(r, h.k)
        /\ last' = RobotOutcome("battery", r, h)
        /\ UNCHANGED <<nodes, arriveKey, th, now, paths, connections, sessions>>

\* {map}/{robot}/robot/robot_error
MqttError(r) ==
    \E h \in {handle_error(Hashes(robots[r], cursor[r], daily[r]), r, now, "fault")} :
        /\ Store(r, h.k)
        /\ last' = RobotOutcome("robot_error", r, h)
        /\ UNCHANGED <<nodes, arriveKey, th, now, paths, connections, sessions>>

\* ------------------------------------------------------- operator commands
button(r, final_node) ==
    [topic |-> <<MapName, r, "server", "button">>, payload |-> [final_node |-> final_node]]

\* RobotStateService.get_robot_state misses: no hash, or no current_node.
position_known(rec) == rec.current_node # Absent

\* get_node(map, current_node): the hash is keyed by bare ids.
get_node_found(t, ref) == ref.sub = Absent /\ node_exists(t, ref.id)

\* RedisCommandHandler._handle_start_command
handle_start_command(t, k, r) ==
    IF ~position_known(k.rec) THEN Handled(k, <<>>, <<>>)
    ELSE LET current_node == k.rec.current_node[1] IN
         IF ~get_node_found(t, current_node) THEN Handled(k, <<>>, <<>>)
         ELSE IF t[current_node.id].l = 0 THEN Handled(k, <<>>, <<>>)
         ELSE Handled(k, <<button(r, Ref(t[current_node.id].l, Absent))>>, <<>>)

\* Faulty variant of calculate_next_position: the turn into the row is made
\* without looking for the l neighbour.
calculate_next_position_turn(t, current_node) ==
    LET node_id == current_node.id
        sub == sub_of(current_node)
    IN  IF sub < 4 THEN Some(Ref(node_id, Some(sub + 1)))
        ELSE (IF ~node_exists(t, node_id) THEN Absent
              ELSE IF t[node_id].l = 0 THEN Absent
              ELSE Some(Ref(t[node_id].l, Some(0))))

\* RedisCommandHandler._calculate_next_position: Absent when there is no move.
calculate_next_position(t, current_node) ==
    LET node_id == current_node.id
        sub == sub_of(current_node)
    IN  IF sub = 0
        THEN (IF ~node_exists(t, node_id) THEN Absent
              ELSE IF t[node_id].l = 0 THEN Absent
              ELSE Some(Ref(node_id, Some(1))))
        ELSE IF sub < 4 THEN Some(Ref(node_id, Some(sub + 1)))
        ELSE (IF ~node_exists(t, node_id) THEN Absent
              ELSE IF t[node_id].l = 0 THEN Absent
              ELSE Some(Ref(t[node_id].l, Some(0))))

\* RedisCommandHandler._handle_next_command
handle_next_command(t, k, r) ==
    IF ~position_known(k.rec) THEN Handled(k, <<>>, <<>>)
    ELSE LET next_position == calculate_next_position(t, k.rec.current_node[1]) IN
         IF next_position = Absent THEN Handled(k, <<>>, <<>>)
         ELSE Handled(k, <<button(r, next_position[1])>>, <<>>)

\* Faulty variant of handle_return_command: the button message is sent and
\* the record is left as it is.
handle_return_command_button(k, r, time) ==
    IF ~position_known(k.rec) THEN Handled(k, <<>>, <<>>)
    ELSE Handled(k, <<button(r, ChargingRef)>>, <<>>)

\* RedisCommandHandler._handle_return_command at time time
handle_return_command(k, r, time) ==
    IF ~position_known(k.rec) THEN Handled(k, <<>>, <<>>)
    ELSE LET k1 == update_position(k, r, time, k.rec.current_node[1], Some(ChargingRef))
         IN  Handled(k1, IF k1.raised # None THEN <<>> ELSE <<button(r, ChargingRef)>>,
                     k1.events)

CommandTypes == {"START", "NEXT", "RETURN"}

\* RedisCommandHandler.handle_message with {type, farmName, robotId}
handle_message(t, k, r, time, command_type) ==
    IF command_type = "START" THEN handle_start_command(t, k, r)
    ELSE IF command_type = "NEXT" THEN handle_next_command(t, k, r)
    ELSE IF command_type = "RETURN" THEN handle_return_command(k, r, time)
    ELSE Handled(k, <<>>, <<>>)

RedisCommand(command_type, r) ==
    \E h \in {handle_message(nodes_of(r), Hashes(robots[r], cursor[r], daily[r]), r, now,
                             command_type)} :
        /\ Store(r, h.k)
        /\ last' = RobotOutcome(command_type, r, h)
        /\ UNCHANGED <<nodes, arriveKey, th, now, paths, connections, sessions>>

\* ------------------------------------------------------------- admin calls
\* The robot create_dummy_data writes (robot_id "1").
DummyRobot == "r1"
\* The seconds create_dummy_data puts in today's bucket.
DummyWorking == 14400
DummyCharging == 3600
DummyFullChargeIdle == 7200
DummyIdle == 3600

\* POST /robots/{map_name}/dummy
HttpDummy ==
    /\ robots' = [robots EXCEPT ![DummyRobot] =
                    [@ EXCEPT !.current_node = Some(Ref(2, Absent)),
                              !.final_node = Some(Ref(2, Absent)),
                              !.battery_state = Some(100),
                              !.charging_state = Some(0),
                              !.status = "idle"]]
    /\ cursor' = [cursor EXCEPT ![DummyRobot].state = "idle",
                                ![DummyRobot].started_at = now]
    /\ daily' = [daily EXCEPT ![DummyRobot][date(now)] =
                    [working |-> DummyWorking, charging |-> DummyCharging,
                     full_charge_idle |-> DummyFullChargeIdle, idle |-> DummyIdle]]
    /\ last' = [op |-> "dummy", robot |-> DummyRobot, pubs |-> <<>>, events |-> <<>>,
                raised |-> None]
    /\ UNCHANGED <<nodes, arriveKey, th, now, paths, connections, sessions>>

\* DELETE /robots/{map_name}/{robot_id}
HttpDeleteRobot(r) ==
    /\ robots' = [robots EXCEPT ![r] = NoRecord]
    /\ last' = [op |-> "delete_robot", robot |-> r, pubs |-> <<>>, events |-> <<>>,
                raised |-> None]
    /\ UNCHANGED <<nodes, arriveKey, th, now, cursor, daily, paths, connections, sessions>>

\* DailyResetScheduler.reset_all_robots: RedisService has no keys method, so
\* line 41 raises before any cursor is read.
SchedulerReset ==
    /\ last' = [op |-> "daily_reset", robot |-> None, pubs |-> <<>>, events |-> <<>>,
                raised |-> "AttributeError"]
    /\ UNCHANGED <<nodes, robots, arriveKey, th, now, cursor, daily, paths, connections, sessions>>

\* ------------------------------------------------ the fleet, event by event
\* The robot that sends every kind of message; the others only report
\* arrivals and errors.
Followed == {DummyRobot}
\* <<current_node, final_node>> of the path_plan messages of the fleet: a
\* return from a sub-position, a forward request, a return from node 2.
FleetPlans == {<<Ref(PlanNodes, Some(3)), 0>>, <<Ref(2, Absent), PlanNodes>>,
               <<Ref(2, Absent), 0>>}
\* Battery messages: <<tenths of a volt, charging flag>>.
FleetBatteries == {<<140, 0>>, <<165, 1>>}
\* The node an arrival is reported at.
FleetArrivals == {Ref(MaxNode, Some(2))}

\* node_count after a path_plan message of robot r from current_node stays
\* within MaxCount.
CountWithin(r, current_node) ==
    LET counted == count_nodes(cursor[r], robots[r].current_node,
                               Ref(parse_node_id(current_node), Absent)).node_count
    IN  IF counted = Absent THEN TRUE ELSE counted[1] <= MaxCount

\* A path_plan message while node_count stays within MaxCount.
CountedPathPlan(r, current_node, final_node) ==
    /\ CountWithin(r, current_node)
    /\ MqttPathPlan(r, current_node, final_node)

InitFleet ==
    /\ nodes = init_node_data(PlanNodes)
    /\ robots = [r \in Keys |-> NoRecord]
    /\ arriveKey = [r \in Keys |-> Absent]
    /\ last = Fresh
    /\ th = [t \in Threads |-> Idle]
    /\ StoreEmpty

NextFleet ==
    \/ \E r \in Followed, plan \in FleetPlans : CountedPathPlan(r, plan[1], plan[2])
    \/ \E r \in Followed, battery \in FleetBatteries : MqttBattery(r, battery[1], battery[2])
    \/ \E r \in Robots, ref \in FleetArrivals : MqttArrive(r, ref)
    \/ \E r \in Robots : MqttError(r)
    \/ \E command_type \in CommandTypes, r \in Followed : RedisCommand(command_type, r)
    \/ HttpDummy
    \/ \E r \in Followed : HttpDeleteRobot(r)
    \/ SchedulerReset

SpecFleet == InitFleet /\ [][NextFleet]_vars

\* ------------------------------------------------------------- fleet claims
\* C17: in every reachable state the status field of every robot record that
\* has one is one of WORKING, RETURN, WAITING, DONE, CHARGING, ERROR.
C17_StatusIsRobotStatus ==
    \A r \in Robots : robots[r].status # None => robots[r].status \in RobotStatus

\* A return path was published and the status written after it is "return".
C17_LowerCaseReturn ==
    /\ last.op = "path_plan" /\ last.is_return /\ last.pubs # <<>>
    /\ robots[last.robot].status = "return"


\* C19: in every step, the status of a robot becomes DONE only when the step
\* handles an arrive message of that robot, and becomes ERROR only when the
\* step handles a robot_error message of that robot.
C19_DoneErrorOnlyByTheirEvents ==
    [][\A r \in Robots :
         /\ (robots[r].status # "DONE" /\ robots'[r].status = "DONE")
            => \E ref \in FleetArrivals : MqttArrive(r, ref)
         /\ (robots[r].status # "ERROR" /\ robots'[r].status = "ERROR")
            => MqttError(r)]_vars

\* A robot that had arrived (DONE) has reported an error and is in ERROR,
\* while the other robot has a record of its own.
C19_ErrorAfterArrival ==
    /\ last.op = "robot_error"
    /\ arriveKey[last.robot] # Absent
    /\ robots[last.robot].status = "ERROR"
    /\ \E r \in Robots \ {last.robot} : robots[r].status = "DONE"

\* --------------------------------------- robot state service, call by call
\* The outcome of a call of the robot state service.
CallOutcome(op, r, current_node, final_node, k) ==
    [op |-> op, robot |-> r, current_node |-> current_node, final_node |-> final_node,
     events |-> k.events, raised |-> k.raised]

\* robot_state_service.update_position(map, r, current_node, final_node)
UpdatePosition(r, current_node, final_node) ==
    \E k \in {update_position(Hashes(robots[r], cursor[r], daily[r]), r, now,
                              current_node, final_node)} :
        /\ IF k.cur.node_count = Absent THEN TRUE ELSE k.cur.node_count[1] <= MaxCount
        /\ Store(r, k)
        /\ last' = CallOutcome("update_position", r, Some(current_node), final_node, k)
        /\ UNCHANGED <<nodes, arriveKey, th, now, paths, connections, sessions>>

\* robot_state_service.update_battery(map, r, battery_state, charging_state)
UpdateBattery(r, battery_state, charging_state) ==
    \E k \in {update_battery(Hashes(robots[r], cursor[r], daily[r]), r, now,
                             battery_state, charging_state)} :
        /\ Store(r, k)
        /\ last' = CallOutcome("update_battery", r, Absent, Absent, k)
        /\ UNCHANGED <<nodes, arriveKey, th, now, paths, connections, sessions>>

\* Arguments of the calls: the charging node, bare ids and a sub-position;
\* final_node omitted or given; a battery below and at 100 %.
PositionRefs == {ChargingRef, Ref(1, Absent), Ref(2, Absent), Ref(2, Some(1))}
PositionFinals == {Absent, Some(ChargingRef), Some(Ref(2, Absent))}
BatteryLevels == {50, 100}
ChargingStates == {0, 1}

InitPosition ==
    /\ nodes = init_node_data(MaxNode)
    /\ robots = [r \in Keys |-> NoRecord]
    /\ arriveKey = [r \in Keys |-> Absent]
    /\ last = Fresh
    /\ th = [t \in Threads |-> Idle]
    /\ StoreEmpty

NextPosition ==
    \/ \E r \in Followed, current_node \in PositionRefs, final_node \in PositionFinals :
         UpdatePosition(r, current_node, final_node)
    \/ \E r \in Followed, battery_state \in BatteryLevels, charging_state \in ChargingStates :
         UpdateBattery(r, battery_state, charging_state)

SpecPosition == InitPosition /\ [][NextPosition]_vars

\* ------------------------------------------------------ status rule claims
\* The status the rule gives at current_node for a final_node and a charging
\* flag as stored (Absent when not stored).
RuleStatus(current_node, final_node, charging_state) ==
    IF current_node = Ref(1, Some(0))
    THEN (IF charging_state = Some(1) THEN "CHARGING" ELSE "WAITING")
    ELSE IF final_node = Some(Ref(1, Some(0))) THEN "RETURN"
    ELSE "WORKING"

Tick ==
    /\ now < MaxTime
    /\ now' = now + 1
    /\ last' = [op |-> "tick", robot |-> None, pubs |-> <<>>, events |-> <<>>,
                raised |-> None]
    /\ UNCHANGED <<nodes, robots, arriveKey, th, cursor, daily, paths, connections, sessions>>

InitStats ==
    /\ nodes = init_node_data(PlanNodes)
    /\ robots = [r \in Keys |-> NoRecord]
    /\ arriveKey = [r \in Keys |-> Absent]
    /\ last = Fresh
    /\ th = [t \in Threads |-> Idle]
    /\ StoreEmpty

NextStats ==
    \/ Tick
    \/ \E r \in Followed, plan \in FleetPlans : CountedPathPlan(r, plan[1], plan[2])
    \/ \E r \in Followed, battery \in FleetBatteries : MqttBattery(r, battery[1], battery[2])
    \/ \E r \in Followed, ref \in FleetArrivals : MqttArrive(r, ref)
    \/ \E r \in Followed : MqttError(r)
    \/ \E r \in Followed : RedisCommand("RETURN", r)

SpecStats == InitStats /\ [][NextStats]_vars

\* ------------------------------------------------------------ stats claims
RECURSIVE SumOver(_, _)
SumOver(f, S) ==
    IF S = {} THEN 0
    ELSE LET x == CHOOSE y \in S : TRUE IN f[x] + SumOver(f, S \ {x})

\* The seconds of robot r in all buckets of all dates.
Bucketed(r) ==
    SumOver([d \in Dates |-> SumOver(daily[r][d], RobotOperationState)], Dates)

\* The length of the open cursor interval of robot r.
OpenInterval(r) == IF cursor[r].state # None THEN now - cursor[r].started_at ELSE 0

\* C20, step by step: once the cursor of a robot is open, the bucketed seconds
\* plus the open interval grow by exactly the time that passes while the
\* robot's status is not ERROR, and by nothing in any other step.
C20_ElapsedAccounted ==
    [][\A r \in Robots :
         cursor[r].state # None
         => (Bucketed(r) + OpenInterval(r))' =
              Bucketed(r) + OpenInterval(r)
              + (IF robots[r].status # "ERROR" THEN now' - now ELSE 0)]_vars

\* The clock has moved on while a robot was in ERROR with its cursor still
\* open in the working state.
C20_TickInError ==
    /\ last.op = "tick"
    /\ \E r \in Robots : /\ robots[r].status = "ERROR"
                         /\ cursor[r].state = "working"
                         /\ now > cursor[r].started_at

\* --------------------------------------- daily stats service, call by call
\* The outcome of a call of the daily stats service at time t with the cursor
\* cur: the argument of the call and what it returned.
DailyOutcome(op, r, cur, t, arg, ret) ==
    [op |-> op, robot |-> r, state |-> cur.state, started_at |-> cur.started_at,
     t |-> t, arg |-> arg, ret |-> ret]

\* daily_stats_service.start_state(map, r, new_state)
StartState(r, new_state) ==
    \E k \in {start_state(Hashes(robots[r], cursor[r], daily[r]), new_state, now)} :
        /\ Store(r, k)
        /\ last' = DailyOutcome("start_state", r, cursor[r], now, new_state, Absent)
        /\ UNCHANGED <<nodes, arriveKey, th, now, paths, connections, sessions>>

\* The cursors a call may find: none, or one opened at or before the call.
CursorsAt(t) ==
    {NoCursor} \cup {[state |-> s, started_at |-> a, node_count |-> Absent] :
                       s \in RobotOperationState, a \in 0..t}

InitDaily ==
    /\ nodes = init_node_data(MaxNode)
    /\ robots = [r \in Keys |-> NoRecord]
    /\ arriveKey = [r \in Keys |-> Absent]
    /\ last = Fresh
    /\ th = [t \in Threads |-> Idle]
    /\ now \in 0..MaxTime
    /\ \E c \in CursorsAt(now) : cursor = [r \in Keys |-> IF r \in Followed THEN c ELSE NoCursor]
    /\ daily = [r \in Keys |-> NoStats]
    /\ NoConnections
    /\ paths = [r \in Keys |-> NoPathRecord]

NextDaily ==
    /\ last = Fresh
    /\ \E r \in Followed, new_state \in RobotOperationState : StartState(r, new_state)

SpecDaily == InitDaily /\ [][NextDaily]_vars

\* ------------------------------------------------------ daily stats claims
Min(a, b) == IF a < b THEN a ELSE b
Max(a, b) == IF a > b THEN a ELSE b
\* The length of the part of [a, b] that lies in date d.
Overlap(a, b, d) == Max(0, Min(b, start_of_day(d + 1)) - Max(a, start_of_day(d)))

\* C21: when start_state closes an interval [started_at, t], every date gets,
\* in the bucket of the cursor's state, exactly the length of the part of the
\* interval that lies in that date, and nothing in any other bucket.
C21_SplitExact ==
    [][\A r \in Followed, new_state \in RobotOperationState :
         (cursor[r].state # None /\ StartState(r, new_state))
         => \A d \in Dates, s \in RobotOperationState :
              daily'[r][d][s] - daily[r][d][s] =
                IF s = cursor[r].state THEN Overlap(cursor[r].started_at, now, d) ELSE 0]_vars

\* start_state has closed an interval that began on the date before.
C21_ClosedAcrossMidnight ==
    /\ last.op = "start_state"
    /\ last.state # None
    /\ date(last.started_at) < date(last.t)
    /\ cursor[last.robot].started_at = last.t

\* ------------------------------------------------------- messaging ingress
\* MapNameValidator.REQUIRED_PREFIX, character by character.
REQUIRED_PREFIX == <<"s", "m", "a", "r", "t", "f", "a", "r", "m", "_">>

\* The characters of the map names that messages carry.
Spelling(map_name) ==
    IF map_name = MapName THEN REQUIRED_PREFIX \o <<"x">>
    ELSE IF map_name = "farm_x" THEN <<"f", "a", "r", "m", "_", "x">>
    ELSE <<"s", "m", "a", "r", "t", "f", "a", "r", "m">>

\* Faulty variant of validate_silent: every map name is let in.
validate_silent_any(map_name) == TRUE

\* MapNameValidator.validate_silent: non-empty and startswith(REQUIRED_PREFIX).
validate_silent(map_name) ==
    LET name == Spelling(map_name) IN
    /\ name # <<>>
    /\ Len(name) >= Len(REQUIRED_PREFIX)
    /\ SubSeq(name, 1, Len(REQUIRED_PREFIX)) = REQUIRED_PREFIX

MapNames == {MapName} \cup ForeignMaps
\* The store keys robot:...:{map_name}:{r} of a message.
KeyOf(map_name, r) == IF map_name = MapName THEN r ELSE ForeignKey(map_name)

Commands == {"path_plan", "battery", "arrive", "remove_path", "robot_error"}

\* CommandHandler.handle for a message on {map_name}/{r}/robot/{command}
MqttTopic(map_name, r, command) ==
    IF ~validate_silent(map_name)
    THEN /\ last' = [op |-> command, robot |-> KeyOf(map_name, r), pubs |-> <<>>,
                     events |-> <<>>, raised |-> None]
         /\ UNCHANGED <<nodes, robots, arriveKey, th, now, cursor, daily, paths, connections, sessions>>
    ELSE \/ /\ command = "path_plan"
            /\ \E plan \in FleetPlans : CountedPathPlan(KeyOf(map_name, r), plan[1], plan[2])
         \/ /\ command = "battery"
            /\ \E battery \in FleetBatteries :
                 MqttBattery(KeyOf(map_name, r), battery[1], battery[2])
         \/ /\ command = "arrive"
            /\ \E ref \in FleetArrivals : MqttArrive(KeyOf(map_name, r), ref)
         \/ /\ command = "remove_path"
            /\ \E ref \in FleetArrivals : MqttRemove(KeyOf(map_name, r), ref)
         \/ /\ command = "robot_error"
            /\ MqttError(KeyOf(map_name, r))

\* RedisCommandHandler.handle_message for {type, farmName: map_name, robotId: r}
RedisChannel(map_name, r, command_type) ==
    RedisCommand(command_type, KeyOf(map_name, r))

InitIngress ==
    /\ nodes = init_node_data(PlanNodes)
    /\ robots = [r \in Keys |-> NoRecord]
    /\ arriveKey = [r \in Keys |-> Absent]
    /\ last = Fresh
    /\ th = [t \in Threads |-> Idle]
    /\ StoreEmpty

NextIngress ==
    \/ \E map_name \in MapNames, r \in Followed, command \in Commands :
         MqttTopic(map_name, r, command)
    \/ \E map_name \in MapNames, r \in Followed, command_type \in CommandTypes :
         RedisChannel(map_name, r, command_type)

SpecIngress == InitIngress /\ [][NextIngress]_vars

\* ------------------------------------------------------------ ingress claims
\* The step leaves the store as it is and publishes nothing.
Quiet ==
    /\ UNCHANGED <<nodes, robots, arriveKey, cursor, daily, paths>>
    /\ last'.pubs = <<>>
    /\ last'.events = <<>>

\* C22: a message of the device bus or of the operator bus whose map name does
\* not start with smartfarm_ changes no robot record, no node, no cursor, no
\* bucket and publishes nothing, and no robot record exists under such a map.
C22_ForeignMapDropped ==
    [][/\ \A map_name \in ForeignMaps, r \in Followed :
            /\ \A command \in Commands : MqttTopic(map_name, r, command) => Quiet
            /\ \A command_type \in CommandTypes :
                 RedisChannel(map_name, r, command_type) => Quiet
       /\ \A key \in Keys \ Robots : robots'[key] = NoRecord]_vars

\* An operator RETURN under a map name without the prefix was handled while
\* the robot of the same id under MapName has a position.
C22_ForeignReturn ==
    /\ last.op = "RETURN"
    /\ last.robot \in Keys \ Robots
    /\ \E r \in Followed : robots[r].current_node # Absent

\* ------------------------------------------------- battery, volt by volt
\* Voltages a battery message reports, in tenths of a volt: from below
\* min_volt = 13.5 to above max_volt = 16.5.
MinDecivolts == 130
MaxDecivolts == 170
Decivolts == MinDecivolts..MaxDecivolts

\* Battery messages of a robot that may meanwhile reach the charging node.
NextBattery ==
    \/ \E r \in Followed, decivolts \in Decivolts, charging_state \in ChargingStates :
         MqttBattery(r, decivolts, charging_state)
    \/ \E r \in Followed : UpdatePosition(r, ChargingRef, Absent)

SpecBattery == InitPosition /\ [][NextBattery]_vars

\* ------------------------------------------------------------ battery claims
\* The percents that round((v' - 13.5) / 3 * 100), clamped to 0..100, may
\* denote: an integer nearest to the quotient, either one at a half.
NearestPercents(decivolts, charging_state) ==
    LET num == IF charging_state = 1 THEN 107 * decivolts - 14655
               ELSE 100 * decivolts - 13500
        Dist(p) == IF 30 * p >= num THEN 30 * p - num ELSE num - 30 * p
    IN  {IF p < 0 THEN 0 ELSE IF p > 100 THEN 100 ELSE p :
           p \in {q \in (0 - 100)..200 : 2 * Dist(q) <= 30}}

\* C23: the battery handler stores round((v' - 13.5) / (16.5 - 13.5) * 100)
\* clamped to 0..100, with v' = v - (16.5 - v) * 0.07 when the charging flag
\* is 1 and v' = v otherwise; for 15.0 V with the flag 1 it stores 47.
C23_PercentStored ==
    [][\A r \in Followed, decivolts \in Decivolts, charging_state \in ChargingStates :
         MqttBattery(r, decivolts, charging_state)
         => /\ robots'[r].battery_state # Absent
            /\ robots'[r].battery_state[1] \in NearestPercents(decivolts, charging_state)
            /\ (decivolts = 150 /\ charging_state = 1)
                 => robots'[r].battery_state = Some(47)]_vars

\* C23 as amended: the battery handler stores round((v' - 13.5) / 3 * 100)
\* clamped to 0..100, with v' as in C23; for 15.0 V with the flag 1, where the
\* quotient is 46.5, it stores 46.
C23_PercentStoredFortySix ==
    [][\A r \in Followed, decivolts \in Decivolts, charging_state \in ChargingStates :
         MqttBattery(r, decivolts, charging_state)
         => /\ robots'[r].battery_state # Absent
            /\ robots'[r].battery_state[1] \in NearestPercents(decivolts, charging_state)
            /\ (decivolts = 150 /\ charging_state = 1)
                 => robots'[r].battery_state = Some(46)]_vars

\* A battery message with the charging flag 1 left 46 stored: of the
\* voltages of Decivolts only 15.0 V gives a percent between 43 and 50.
C23_FifteenVoltsCharging ==
    /\ last.op = "battery"
    /\ robots[last.robot].battery_state = Some(46)
    /\ robots[last.robot].charging_state = Some(1)

\* ------------------------------------------------- status and the fields
\* The fields the status is said to follow from.
StatusFields(rec) ==
    <<rec.current_node, rec.final_node, rec.charging_state, rec.battery_state>>

\* C24: with no handler under way, two robot records that agree on
\* current_node, final_node, charging_state and battery_state have the same
\* status.
C24_StatusFunctionOfFields ==
    \A r \in Robots, other \in Robots :
        (/\ robots[r].status # None
         /\ robots[other].status # None
         /\ StatusFields(robots[r]) = StatusFields(robots[other]))
        => robots[r].status = robots[other].status

\* Two robots arrived at the same node and one of them then reported an
\* error: their records agree in the four fields and differ in the status.
C24_ErrorBesideDone ==
    \E r \in Robots, other \in Robots :
        /\ robots[r].status = "ERROR"
        /\ robots[other].status = "DONE"
        /\ StatusFields(robots[r]) = StatusFields(robots[other])

\* ------------------------------------------------ status after a return
\* C25: after a path_plan message that asks for a return from a robot that is
\* not at the charging node, with the return path found and published, the
\* stored status of the robot is RETURN.
C25_ReturnStatusPersisted ==
    (/\ PathPublished
     /\ last.is_return
     /\ last.current_node.id \notin {ChargingRef.id, last.destination})
    => robots[last.robot].status = "RETURN"

\* Robot r1 asked for a return from "5-3", the path was published and saved,
\* and the status stored with it is the string "return".
C25_ReturnFromFiveThree ==
    /\ PathPublished
    /\ last.is_return
    /\ last.robot = "r1" /\ last.current_node = Ref(5, Some(3))
    /\ paths[last.robot].status = "success"
    /\ robots[last.robot].status = "return"

\* ------------------------------------------- the service calls and arrivals
\* The calls of SpecPosition with the two handlers that write the status
\* through update_status: an arrival, which also writes current_node, and an
\* error report.
NextDock ==
    \/ NextPosition
    \/ \E r \in Followed, ref \in FleetArrivals : MqttArrive(r, ref)
    \/ \E r \in Followed : MqttError(r)

SpecDock == InitPosition /\ [][NextDock]_vars

\* ---------------------------------------------------------------- dock claims
AtDock == {"CHARGING", "WAITING"}

CountRefs == {Ref(1, Absent), Ref(1, Some(0)), Ref(2, Absent), Ref(2, Some(1)),
              Ref(2, Some(4)), Ref(2, Some(15)), Ref(3, Absent)}

\* Position updates of a robot that may arrive and whose record may be deleted.
NextCount ==
    \/ \E r \in Followed, current_node \in CountRefs :
         UpdatePosition(r, current_node, Absent)
    \/ \E r \in Followed, ref \in FleetArrivals : MqttArrive(r, ref)
    \/ \E r \in Followed : HttpDeleteRobot(r)

SpecCount == InitPosition /\ [][NextCount]_vars

\* --------------------------------------------------------------- count claims
\* The movement delta between two positions, a bare node id meaning
\* sub-position 0.
Delta(prev, curr) ==
    LET s_old == IF prev.sub = Absent THEN 0 ELSE prev.sub[1]
        s_new == IF curr.sub = Absent THEN 0 ELSE curr.sub[1]
    IN  IF prev.id = curr.id THEN (IF s_new >= s_old THEN s_new - s_old ELSE s_old - s_new)
        ELSE IF s_old = 0 /\ s_new = 0 THEN 5
        ELSE 1

\* node_count of robot r as a number, a missing count being 0.
Counted(count) == IF count = Absent THEN 0 ELSE count[1]

\* What update_position adds: nothing to an unchanged current_node, nothing
\* for a delta above 10, the delta otherwise.
Added(prev, curr) ==
    IF prev = curr \/ Delta(prev, curr) > 10 THEN 0 ELSE Delta(prev, curr)

\* C27: node_count starts at 0 on the first position update of a robot; every
\* later update_position that changes current_node adds the movement delta
\* (|s_new - s_old| on one base node, 5 between base nodes at sub-position 0,
\* 1 otherwise), nothing for a delta above 10 and nothing when current_node is
\* unchanged; node_count never decreases.
C27_NodeCountRule ==
    [][\A r \in Followed :
         /\ \A current_node \in CountRefs :
              UpdatePosition(r, current_node, Absent)
              => Counted(cursor'[r].node_count) =
                   IF robots[r].current_node = Absent THEN 0
                   ELSE Counted(cursor[r].node_count)
                        + Added(robots[r].current_node[1], current_node)
         /\ Counted(cursor'[r].node_count) >= Counted(cursor[r].node_count)]_vars

\* C27 as amended: node_count is set to 0 by a position update of a robot
\* that has no stored current_node, be it the first ever or the first after
\* the robot record was deleted; every other update_position that changes
\* current_node adds the movement delta to the stored count, nothing for a
\* delta above 10 and nothing when current_node is unchanged; no other step
\* changes node_count.
C27_NodeCountRuleWithReset ==
    [][\A r \in Followed :
         /\ \A current_node \in CountRefs :
              UpdatePosition(r, current_node, Absent)
              => cursor'[r].node_count =
                   IF robots[r].current_node = Absent THEN Some(0)
                   ELSE IF Added(robots[r].current_node[1], current_node) = 0
                        THEN cursor[r].node_count
                        ELSE Some(Counted(cursor[r].node_count)
                                  + Added(robots[r].current_node[1], current_node))
         /\ (robots[r].current_node # Absent \/ last'.op # "update_position")
              => Counted(cursor'[r].node_count) >= Counted(cursor[r].node_count)
         /\ last'.op # "update_position" => cursor'[r].node_count = cursor[r].node_count]_vars

\* The robot record was deleted while the cursor keeps a count of 5: the
\* position update that follows finds no current_node.
C27_CountOutlivesRecord ==
    /\ last.op = "delete_robot"
    /\ robots[last.robot] = NoRecord
    /\ cursor[last.robot].node_count = Some(5)

\* ---------------------------------------------------- daily stats, read
\* DailyStatsService.get_daily_stats at time t: target_date Absent reads the
\* bucket of today.
get_daily_stats(k, target_date, t) ==
    LET stored == k.stats[IF target_date = Absent THEN date(t) ELSE target_date[1]]
    IN  IF /\ k.cur.state # None
           /\ (target_date = Absent \/ date(k.cur.started_at) = target_date[1])
        THEN [stored EXCEPT ![k.cur.state] = @ + (t - k.cur.started_at)]
        ELSE stored

\* daily_stats_service.get_daily_stats(map, r, target_date)
GetDailyStats(r, target_date) ==
    /\ last' = DailyOutcome("get_daily_stats", r, cursor[r], now, target_date,
                            Some(get_daily_stats(Hashes(robots[r], cursor[r], daily[r]),
                                                 target_date, now)))
    /\ UNCHANGED <<nodes, robots, arriveKey, th, now, cursor, daily, paths, connections, sessions>>

\* The states the cursor is put in and the dates asked for.
ReadStates == {"working", "idle"}
TargetDates == {Absent} \cup {Some(d) : d \in Dates}

NextRead ==
    \/ Tick
    \/ \E r \in Followed, new_state \in ReadStates : StartState(r, new_state)
    \/ \E r \in Followed, target_date \in TargetDates : GetDailyStats(r, target_date)

SpecRead == InitStats /\ [][NextRead]_vars

\* ------------------------------------------------------- daily read claims
\* C28: get_daily_stats returns the stored buckets of the date asked for (of
\* today when none is given) and adds the still-running interval of the
\* cursor to the bucket of its state if and only if the cursor was started on
\* that date; the amount for a date holds no time that passed on another date.
C28_ReadOneDate ==
    last.op = "get_daily_stats"
    => LET d == IF last.arg = Absent THEN date(last.t) ELSE last.arg[1]
       IN  \A s \in RobotOperationState :
             last.ret[1][s] = daily[last.robot][d][s]
                              + IF last.state = s /\ date(last.started_at) = d
                                THEN Overlap(last.started_at, last.t, d)
                                ELSE 0

\* The statistics of today were read, with no date given, while the cursor
\* has been open since an earlier date.
C28_ReadTodayOpenSinceYesterday ==
    /\ last.op = "get_daily_stats"
    /\ last.arg = Absent
    /\ last.state # None
    /\ date(last.started_at) < date(last.t)
    /\ last.ret[1][last.state] = daily[last.robot][date(last.t)][last.state]
                                 + (last.t - last.started_at)

\* ------------------------------------------------- the daily reset, timed
\* The clock, the cursor of a robot put in a state, and the job of midnight.
NextReset ==
    \/ Tick
    \/ \E r \in Followed, new_state \in ReadStates : StartState(r, new_state)
    \/ SchedulerReset

SpecReset == InitStats /\ [][NextReset]_vars

\* -------------------------------------------------------- daily reset claims
\* C29: a daily reset tick at time now adds, for every robot with an open
\* cursor, the interval from started_at to now to the buckets of the dates it
\* lies in under the state of the cursor, and leaves the cursor with the same
\* state, started_at = now and the same node_count; it changes no robot
\* record and no node.
C29_ResetClosesIntervals ==
    [][(last'.op = "daily_reset" /\ SchedulerReset)
       => /\ UNCHANGED <<robots, nodes>>
          /\ \A r \in Followed :
               cursor[r].state # None
               => /\ cursor'[r] = [cursor[r] EXCEPT !.started_at = now]
                  /\ \A d \in Dates, s \in RobotOperationState :
                       daily'[r][d][s] - daily[r][d][s]
                         = IF s = cursor[r].state
                           THEN Overlap(cursor[r].started_at, now, d) ELSE 0]_vars

\* The reset job has run on a later date than the one the cursor was opened
\* on, and the cursor still starts on the earlier date.
C29_ResetLeftCursorOpen ==
    /\ last.op = "daily_reset"
    /\ \E r \in Followed :
         /\ cursor[r].state # None
         /\ date(cursor[r].started_at) < date(now)

\* ------------------------------------------------- operator next, by position
\* Stored positions: a node with an l neighbour, the node without one and a
\* node that is not in the table, bare and at sub-positions 1, 3, 4 and 5.
NextRefs == {Ref(n, sub) : n \in {1, MaxNode, MaxNode + 1},
                           sub \in {Absent, Some(0), Some(1), Some(3), Some(4), Some(5)}}

\* A robot is put at a position, is asked to go on, and its record may be
\* deleted.
NextOperator ==
    \/ \E r \in Followed, current_node \in NextRefs : UpdatePosition(r, current_node, Absent)
    \/ \E r \in Followed : RedisCommand("NEXT", r)
    \/ \E r \in Followed : HttpDeleteRobot(r)

SpecNext == InitPosition /\ [][NextOperator]_vars

\* ------------------------------------------------------- operator next claims
\* The l neighbour of node n, 0 when there is none or the node is unknown.
LeftOf(n) == IF n \in DOMAIN nodes THEN nodes[n].l ELSE 0

\* What next publishes for a robot at node n with sub-position s.
NextButtons(r, n, s) ==
    IF s = 0
    THEN (IF LeftOf(n) # 0 THEN <<button(r, Ref(n, Some(1)))>> ELSE <<>>)
    ELSE IF s < 4 THEN <<button(r, Ref(n, Some(s + 1)))>>
    ELSE (IF LeftOf(n) # 0 THEN <<button(r, Ref(LeftOf(n), Some(0)))>> ELSE <<>>)

\* C30: the operator next command for a robot at node n with sub-position s
\* (a bare id meaning s = 0) publishes on {map}/{robot}/server/button "{n}-1"
\* when s = 0 and n has an l neighbour, "{n}-{s+1}" when 0 < s < 4, and
\* "{L}-0" when s = 4 and L is the l neighbour of n; when the l neighbour it
\* needs is missing, the node it looks up is unknown, or no current_node is
\* stored, it publishes nothing; it changes no state; every position it
\* publishes has a sub-position in 0..4.
C30_NextPosition ==
    [][\A r \in Followed :
         (last'.op = "NEXT" /\ RedisCommand("NEXT", r))
         => /\ UNCHANGED <<nodes, robots, arriveKey, cursor, daily, paths>>
            /\ last'.events = <<>>
            /\ robots[r].current_node = Absent => last'.pubs = <<>>
            /\ (robots[r].current_node # Absent
                /\ sub_of(robots[r].current_node[1]) <= 4)
                 => last'.pubs = NextButtons(r, robots[r].current_node[1].id,
                                             sub_of(robots[r].current_node[1]))
            /\ \A i \in DOMAIN last'.pubs :
                 /\ last'.pubs[i].payload.final_node.sub # Absent
                 /\ last'.pubs[i].payload.final_node.sub[1] \in 0..4]_vars

\* Next was asked for a robot at sub-position 4 and the position published is
\* sub-position 0 of the l neighbour.
C30_NextRow ==
    /\ last.op = "NEXT"
    /\ robots[last.robot].current_node # Absent
    /\ robots[last.robot].current_node[1].sub = Some(4)
    /\ last.pubs = <<button(last.robot,
                            Ref(LeftOf(robots[last.robot].current_node[1].id), Some(0)))>>
    /\ LeftOf(robots[last.robot].current_node[1].id) # 0

str_int(n) == IF n < 0 THEN <<"-">> \o str(0 - n) ELSE str(n)

\* The first direction of DirOrder, from index i on, under which node leads to
\* target; Absent when there is none.
RECURSIVE direction_to(_, _, _)
direction_to(node, target, i) ==
    IF i > Len(DirOrder) THEN Absent
    ELSE IF node[DirOrder[i]] = target THEN Some(DirOrder[i])
    ELSE direction_to(node, target, i + 1)

\* The first direction of DirOrder, from index i on, with a neighbour.
RECURSIVE first_valid_direction(_, _)
first_valid_direction(node, i) ==
    IF i > Len(DirOrder) THEN Absent
    ELSE IF node[DirOrder[i]] # 0 THEN Some(DirOrder[i])
    ELSE first_valid_direction(node, i + 1)

\* The direction of a move within one node (lines 137-155): towards the
\* stored final_node, else the first direction with a neighbour, else "l".
direction_within(t, rec, current_node) ==
    LET stored_final == rec.final_node
        searched == IF stored_final = Absent THEN Absent
                    ELSE IF stored_final[1].sub # Absent THEN Absent
                    ELSE IF stored_final[1].id = 0 \/ stored_final[1].id = current_node
                         THEN Absent
                    ELSE LET found == bfs(t, current_node, stored_final[1].id)
                         IN  IF found.directions = <<>> THEN Absent
                             ELSE Some(found.directions[1])
        fallback == IF node_exists(t, current_node)
                    THEN first_valid_direction(t[current_node], 1) ELSE Absent
    IN  IF searched # Absent THEN searched
        ELSE IF fallback # Absent THEN fallback ELSE Some("l")

\* "{target}/{d}~{target}-{target_sub}!{current}-{current_sub},{d}/"
sub_path_str(target_node, target_sub, current_node, current_sub, direction) ==
    str(target_node) \o <<"/", direction, "~">>
    \o str(target_node) \o <<"-">> \o str(target_sub) \o <<"!">>
    \o str(current_node) \o <<"-">> \o str_int(current_sub) \o <<",", direction, "/">>

\* CommandHandler._handle_sub_node_path on table t for the record rec:
\* the messages it publishes.
handle_sub_node_path(t, rec, r, current_ref, final_ref) ==
    LET target_node == final_ref.id
        target_sub == final_ref.sub[1]
        current_node == current_ref.id
        direction == IF current_node # target_node
                     THEN (IF ~node_exists(t, current_node) THEN Absent
                           ELSE direction_to(t[current_node], target_node, 1))
                     ELSE direction_within(t, rec, current_node)
        current_sub == IF current_ref.sub # Absent THEN current_ref.sub[1]
                       ELSE IF current_node = target_node THEN target_sub - 1
                       ELSE 4
    IN  IF direction = Absent THEN <<>>
        ELSE <<path_reply(r, sub_path_str(target_node, target_sub, current_node,
                                          current_sub, direction[1]))>>

\* {map}/{robot}/robot/path_plan with a final_node "{node}-{sub}"
MqttSubNodePath(r, current_ref, final_ref) ==
    /\ last' = [op |-> "sub_node_path", robot |-> r, current_node |-> current_ref,
                final_node |-> final_ref,
                pubs |-> handle_sub_node_path(nodes_of(r), robots[r], r, current_ref,
                                              final_ref),
                events |-> <<>>, raised |-> None]
    /\ UNCHANGED <<nodes, robots, arriveKey, th, now, cursor, daily, paths, connections, sessions>>

\* Positions and targets of the requests: every node of the line and an id
\* that is no node, bare or at sub-position 2; targets at sub-positions 0, 2, 4.
SubRefs == {Ref(n, sub) : n \in 1..(PlanNodes + 1), sub \in {Absent, Some(2)}}
SubFinals == {Ref(n, Some(sub)) : n \in 1..PlanNodes, sub \in {0, 2, 4}}

NextSub ==
    \/ \E r \in Followed, plan \in FleetPlans : CountedPathPlan(r, plan[1], plan[2])
    \/ \E r \in Followed, current_ref \in SubRefs, final_ref \in SubFinals :
         MqttSubNodePath(r, current_ref, final_ref)

SpecSub == InitFleet /\ [][NextSub]_vars

\* ------------------------------------------------------ sub-position claims
\* The string part occurs in the string whole.
Contains(whole, part) ==
    \E i \in 1..(Len(whole) - Len(part) + 1) : SubSeq(whole, i, i + Len(part) - 1) = part

\* The sub-positions of the i-th node of a route of n nodes, entered at
\* sub-position from and left for the sub-position to of its last node.
SubsOn(i, n, from, to) ==
    (IF i = 1 THEN from ELSE 0)..(IF i = n THEN to ELSE 4)

\* The route of the latest request to a sub-position of another node.
SubRoute == bfs(nodes, last.current_node.id, last.final_node.id).path

\* C32: for a path_plan request whose final_node carries a sub-position, on a
\* base node other than the current one, the published path covers the whole
\* BFS node path: the first node from the current sub-position to 4, every
\* node between through 0..4, the last node from 0 to the target
\* sub-position, whatever the distance of the target.
C32_SubPathCoversRoute ==
    (/\ last.op = "sub_node_path"
     /\ last.current_node.id # last.final_node.id
     /\ SubRoute # <<>>)
    => /\ Len(last.pubs) = 1
       /\ \A i \in 1..Len(SubRoute) :
            \A sub \in SubsOn(i, Len(SubRoute), sub_of(last.current_node),
                              last.final_node.sub[1]) :
              Contains(last.pubs[1].payload.path, display(SubRoute[i], sub))

\* A request from "2-2" to "3-2", two nodes away by way of node 1 with no
\* node held, was handled and nothing was published.
C32_TwoNodesAway ==
    /\ last.op = "sub_node_path"
    /\ last.current_node = Ref(2, Some(2))
    /\ last.final_node = Ref(3, Some(2))
    /\ SubRoute = <<2, 1, 3>>
    /\ last.pubs = <<>>

\* ------------------------------------------------- payloads that do not decode
\* The commands of CommandHandler.handle.
DeviceCommands == Commands \cup {"next"}

\* A message of command whose payload is Undecodable: path_plan, battery,
\* arrive, remove_path and next decode the payload in their first statement,
\* robot_error after update_status; MQTTService._on_message catches what is
\* raised.
MqttUndecodable(r, command) ==
    IF command = "robot_error"
    THEN \E h \in {handle_error(Hashes(robots[r], cursor[r], daily[r]), r, now,
                                Undecodable)} :
            /\ Store(r, h.k)
            /\ last' = RobotOutcome(command, r, h)
            /\ UNCHANGED <<nodes, arriveKey, th, now, paths, connections, sessions>>
    ELSE /\ last' = [op |-> command, robot |-> r, pubs |-> <<>>, events |-> <<>>,
                     raised |-> "ValidationError"]
         /\ UNCHANGED <<nodes, robots, arriveKey, th, now, cursor, daily, paths, connections, sessions>>

NextPayload ==
    \/ \E r \in Followed, plan \in FleetPlans : CountedPathPlan(r, plan[1], plan[2])
    \/ \E r \in Followed, battery \in FleetBatteries : MqttBattery(r, battery[1], battery[2])
    \/ \E r \in Followed, ref \in FleetArrivals : MqttArrive(r, ref)
    \/ \E r \in Followed, command \in DeviceCommands : MqttUndecodable(r, command)

SpecPayload == InitFleet /\ [][NextPayload]_vars

\* ------------------------------------------------------------ payload claims
\* C33: a device-bus message whose payload cannot be decoded, for any of
\* path_plan, battery, arrive, remove_path, next and robot_error, is dropped:
\* the robot record, the nodes and the stats cursor stay as they are and
\* nothing is published.
C33_UndecodableDropped ==
    [][\A r \in Followed, command \in DeviceCommands :
         (/\ "raised" \in DOMAIN last'
          /\ last'.raised \in {"ValidationError", "JSONDecodeError"}
          /\ MqttUndecodable(r, command))
         => /\ UNCHANGED <<nodes, robots, arriveKey, cursor, daily, paths>>
            /\ last'.pubs = <<>>
            /\ last'.events = <<>>]_vars

\* A robot_error message whose payload is no JSON was handled for a working
\* robot: the status is ERROR and the state change was published.
C33_ErrorBeforeDecoding ==
    /\ last.op = "robot_error"
    /\ last.raised = "JSONDecodeError"
    /\ robots[last.robot].status = "ERROR"
    /\ robots[last.robot].current_node # Absent
    /\ last.events # <<>>


\* ------------------------------------------- state-change notifications
\* C34: a call of update_battery that commits a change to the record of a
\* robot publishes, within the call, exactly one snapshot on
\* {map}/robot/{robot}/state, and the snapshot holds the committed record.
C34_CommitThenPublish ==
    [][\A r \in Followed, battery \in FleetBatteries :
         (/\ last'.op = "battery"
          /\ MqttBattery(r, battery[1], battery[2])
          /\ robots'[r] # robots[r])
         => last'.events = <<state_event(r, robots'[r])>>]_vars

\* A battery report was committed to a record whose status is no RobotStatus,
\* and the call ended in _update_operation_state.
C34_CommittedUnannounced ==
    /\ last.op = "battery"
    /\ last.raised = "ValueError"
    /\ last.events = <<>>
    /\ robots[last.robot].battery_state # Absent
    /\ robots[last.robot].status \notin RobotStatus


\* --------------------------------------------------- presence of clients
\* Strings of this section are sequences of characters.
Hyphen == "-"

\* str.split("-", maxsplit): the parts between the first maxsplit hyphens.
RECURSIVE split(_, _)
split(s, maxsplit) ==
    LET at == {i \in 1..Len(s) : s[i] = Hyphen}
    IN  IF maxsplit = 0 \/ at = {} THEN <<s>>
        ELSE LET i == CHOOSE j \in at : \A k \in at : j <= k
             IN  <<SubSeq(s, 1, i - 1)>> \o split(SubSeq(s, i + 1, Len(s)), maxsplit - 1)

\* Faulty variant of _parse_client_id: the id is split at every hyphen.
parse_client_id_every(client_id) ==
    LET parts == split(client_id, Len(client_id))
    IN  IF Len(parts) # 4 THEN Absent
        ELSE IF \E i \in 1..4 : parts[i] = <<>> THEN Absent
        ELSE Some([device_name |-> parts[1], map_name |-> parts[2],
                   device_id |-> parts[3], uuid |-> parts[4]])

\* ConnectionHandler._parse_client_id
parse_client_id(client_id) ==
    LET parts == split(client_id, 3)
    IN  IF Len(parts) # 4 THEN Absent
        ELSE IF \E i \in 1..4 : parts[i] = <<>> THEN Absent
        ELSE Some([device_name |-> parts[1], map_name |-> parts[2],
                   device_id |-> parts[3], uuid |-> parts[4]])

\* ConnectionHandler._get_connection_key, after REDIS_KEY_PREFIX
get_connection_key(device_name, map_name, device_id) ==
    device_name \o <<":">> \o map_name \o <<":">> \o device_id

\* redis hset of several fields of the hash at key, and hdel of others.
hset_fields(store, key, written, deleted) ==
    LET old == IF key \in DOMAIN store THEN store[key] ELSE <<>>
        rec == [f \in (DOMAIN old \cup DOMAIN written) \ deleted |->
                  IF f \in DOMAIN written THEN written[f] ELSE old[f]]
    IN  [k \in DOMAIN store \cup {key} |-> IF k = key THEN rec ELSE store[k]]

\* redis delete of key
delete_key(store, key) == [k \in DOMAIN store \ {key} |-> store[k]]

\* An event of the broker: its clientid and, on a connect, its ipaddress
\* (Absent: the field is missing). A payload is Some(client_info), or Absent
\* when json.loads rejects it.
client_info(client_id, ip_address) ==
    Some([clientid |-> client_id, ipaddress |-> ip_address])

\* ConnectionHandler._handle_client_connected at time t: the store it leaves.
handle_client_connected(store, payload, t) ==
    IF payload = Absent THEN store
    ELSE LET ip_address == IF payload[1].ipaddress = Absent THEN "Unknown"
                           ELSE payload[1].ipaddress[1]
             parsed == parse_client_id(payload[1].clientid)
         IN  IF parsed = Absent THEN store
             ELSE hset_fields(store,
                      get_connection_key(parsed[1].device_name, parsed[1].map_name,
                                         parsed[1].device_id),
                      [status |-> <<"connected">>, connected_at |-> <<t>>,
                       ip |-> <<ip_address>>,
                       device_name |-> parsed[1].device_name,
                       device_id |-> parsed[1].device_id,
                       map_name |-> parsed[1].map_name,
                       uuid |-> parsed[1].uuid],
                      {"disconnected_at", "reason"})

\* ConnectionHandler._handle_client_disconnected: the store it leaves.
handle_client_disconnected(store, payload) ==
    IF payload = Absent THEN store
    ELSE LET parsed == parse_client_id(payload[1].clientid)
         IN  IF parsed = Absent THEN store
             ELSE delete_key(store,
                      get_connection_key(parsed[1].device_name, parsed[1].map_name,
                                         parsed[1].device_id))

\* The client ids that connect: two sessions of robot 1 of map m, one of them
\* with a hyphen in its uuid, a session of robot 2, and ids without a fourth
\* part, with an empty part, and without a hyphen.
ClientIds ==
    {<<"r", "-", "m", "-", "1", "-", "a">>,
     <<"r", "-", "m", "-", "1", "-", "b", "-", "c">>,
     <<"r", "-", "m", "-", "2", "-", "a">>,
     <<"r", "-", "m", "-", "1">>,
     <<"r", "-", "-", "1", "-", "a">>,
     <<"r", "-", "m", "-", "1", "-">>,
     <<"r">>}
IpAddresses == {Absent, Some("10.0.0.7")}

\* events/client/connected: a client that is not at the broker connects, and
\* the event is handled.
ClientConnected(client_id, ip_address) ==
    /\ client_id \notin sessions
    /\ sessions' = sessions \cup {client_id}
    /\ connections' = handle_client_connected(connections,
                                              client_info(client_id, ip_address), now)
    /\ last' = [op |-> "connected", robot |-> None, clientid |-> client_id,
                ip |-> ip_address, pubs |-> <<>>, events |-> <<>>, raised |-> None]
    /\ UNCHANGED <<nodes, robots, arriveKey, th, now, cursor, daily, paths>>

\* events/client/disconnected: a client at the broker goes, and the event is
\* handled.
ClientDisconnected(client_id) ==
    /\ client_id \in sessions
    /\ sessions' = sessions \ {client_id}
    /\ connections' = handle_client_disconnected(connections,
                                                 client_info(client_id, Absent))
    /\ last' = [op |-> "disconnected", robot |-> None, clientid |-> client_id,
                ip |-> Absent, pubs |-> <<>>, events |-> <<>>, raised |-> None]
    /\ UNCHANGED <<nodes, robots, arriveKey, th, now, cursor, daily, paths>>

\* An event on events/client/connected or events/client/disconnected whose
\* payload is not JSON.
ClientEventUndecodable(topic) ==
    /\ connections' = IF topic = "connected"
                      THEN handle_client_connected(connections, Absent, now)
                      ELSE handle_client_disconnected(connections, Absent)
    /\ last' = [op |-> topic, robot |-> None, clientid |-> <<>>,
                ip |-> Absent, pubs |-> <<>>, events |-> <<>>, raised |-> None]
    /\ UNCHANGED <<nodes, robots, arriveKey, th, now, cursor, daily, paths, sessions>>

NextPresence ==
    \/ \E client_id \in ClientIds, ip_address \in IpAddresses :
           ClientConnected(client_id, ip_address)
    \/ \E client_id \in ClientIds : ClientDisconnected(client_id)
    \/ \E topic \in {"connected", "disconnected"} : ClientEventUndecodable(topic)
    \/ Tick

SpecPresence == InitFleet /\ [][NextPresence]_vars

\* The position of the n-th hyphen of client id c.
HyphenAt(c, n) ==
    CHOOSE k \in 1..Len(c) :
        c[k] = Hyphen /\ Cardinality({m \in 1..k : c[m] = Hyphen}) = n
\* The client ids of four non-empty parts, the fourth of which may hold hyphens.
WellFormed ==
    {c \in ClientIds :
        /\ Cardinality({m \in 1..Len(c) : c[m] = Hyphen}) >= 3
        /\ 1 < HyphenAt(c, 1)
        /\ HyphenAt(c, 1) + 1 < HyphenAt(c, 2)
        /\ HyphenAt(c, 2) + 1 < HyphenAt(c, 3)
        /\ HyphenAt(c, 3) < Len(c)}
\* The identity of a well-formed client id, as the key of its record.
KeyOfClient(c) ==
    SubSeq(c, 1, HyphenAt(c, 1) - 1) \o <<":">>
        \o SubSeq(c, HyphenAt(c, 1) + 1, HyphenAt(c, 2) - 1) \o <<":">>
        \o SubSeq(c, HyphenAt(c, 2) + 1, HyphenAt(c, 3) - 1)
\* The fourth part of a well-formed client id.
UuidOf(c) == SubSeq(c, HyphenAt(c, 3) + 1, Len(c))

\* C35: a connected event with a well-formed client id leaves the record of
\* its identity with the time, the IP and the uuid of that event and without
\* disconnected_at; a disconnected event with a well-formed client id leaves
\* no record of its identity; both leave every other record as it was, and
\* an event with another client id leaves every record as it was.
C35_PresenceFollowsLastEvent ==
    [][\A c \in ClientIds :
         (last'.op \in {"connected", "disconnected"} /\ last'.clientid = c)
         => IF c \notin WellFormed THEN connections' = connections
            ELSE /\ \A k \in (DOMAIN connections \cup DOMAIN connections') \ {KeyOfClient(c)} :
                        k \in DOMAIN connections /\ k \in DOMAIN connections'
                        /\ connections'[k] = connections[k]
                 /\ IF last'.op = "disconnected"
                    THEN KeyOfClient(c) \notin DOMAIN connections'
                    ELSE /\ KeyOfClient(c) \in DOMAIN connections'
                         /\ LET rec == connections'[KeyOfClient(c)]
                            IN  /\ "disconnected_at" \notin DOMAIN rec
                                /\ rec.connected_at = <<now>>
                                /\ rec.ip = <<IF last'.ip = Absent THEN "Unknown"
                                              ELSE last'.ip[1]>>
                                /\ rec.uuid = UuidOf(c)]_vars

\* A session whose uuid holds a hyphen connected after another session of the
\* same identity, and the record holds the later session.
C35_ReconnectedWithHyphenUuid ==
    /\ last.op = "connected"
    /\ last.clientid = <<"r", "-", "m", "-", "1", "-", "b", "-", "c">>
    /\ <<"r", "-", "m", "-", "1", "-", "a">> \in sessions
    /\ now > 0
    /\ connections[<<"r", ":", "m", ":", "1">>].uuid = <<"b", "-", "c">>
    /\ connections[<<"r", ":", "m", ":", "1">>].connected_at = <<now>>

\* C36: while a client of an identity is at the broker, the record of the
\* identity exists.
C36_ConnectedHasRecord ==
    \A c \in sessions \cap WellFormed : KeyOfClient(c) \in DOMAIN connections

\* The older of two sessions of an identity left after the newer one came.
C36_OlderSessionLeft ==
    /\ last.op = "disconnected"
    /\ last.clientid = <<"r", "-", "m", "-", "1", "-", "a">>
    /\ <<"r", "-", "m", "-", "1", "-", "b", "-", "c">> \in sessions
    /\ <<"r", ":", "m", ":", "1">> \notin DOMAIN connections


\* ------------------------------------------------------ seeding at startup
\* Faulty variant of seed_nodes: the table is written whether it exists or not.
seed_nodes_always(t, size) == init_node_data(size)

\* init_node_data, whole: nothing is written when hgetall finds a table.
seed_nodes(t, size) == IF t # <<>> THEN t ELSE init_node_data(size)

\* lifespan: the process starts and seeds the map; the stores are those the
\* process before it left.
Startup ==
    /\ nodes' = seed_nodes(nodes, MaxNode)
    /\ last' = Outcome(Request("startup", None, 0), Absent, <<>>, <<>>)
    /\ UNCHANGED <<robots, arriveKey, th, now, cursor, daily, paths, connections, sessions>>

\* The store before the first start: no nodes:{map} key.
InitSeed ==
    /\ nodes = <<>>
    /\ robots = [r \in Keys |-> NoRecord]
    /\ arriveKey = [r \in Keys |-> Absent]
    /\ last = Fresh
    /\ th = [t \in Threads |-> Idle]
    /\ StoreEmpty

NextSeed ==
    \/ Startup
    \/ \E n \in Ids, r \in Robots : HttpOccupy(n, r)
    \/ \E n \in Ids, r \in RobotArgs : HttpRelease(n, r)
    \/ \E r \in Robots : HttpReleaseRobot(r)

SpecSeed == InitSeed /\ [][NextSeed]_vars

\* C40: a start of the process that finds the node table of the map in the
\* store leaves the table, with the neighbours and the occupant of every
\* node, as it was.
C40_SeedingKeepsTable ==
    [][(last'.op = "startup" /\ nodes # <<>>) => nodes' = nodes]_vars

\* The process started again while a node was occupied, and it still is.
C40_RestartedWhileOccupied ==
    /\ last.op = "startup"
    /\ nodes # <<>>
    /\ \E n \in DOMAIN nodes : nodes[n].occupied # None


\* ------------------------------------------------ replies to path_plan
\* C37: a path_plan message, for a forward, a return or a sub-position
\* request, is answered by exactly one message on {map}/{robot}/server/path_plan.
C37_EveryRequestAnswered ==
    [][last'.op \in {"path_plan", "sub_node_path"}
       => /\ Len(last'.pubs) = 1
          /\ last'.pubs[1].topic = <<MapName, last'.robot, "server", "path_plan">>]_vars

\* A forward request with a route of several free nodes ended in an exception
\* and got no reply.
C37_ForwardUnanswered ==
    /\ last.op = "path_plan"
    /\ last.is_return = FALSE
    /\ Len(last.path) >= 2
    /\ last.raised # None
    /\ last.pubs = <<>>


\* ------------------------- a battery report and a return command, by steps
RedisThread == "redis"

\* _handle_return_command lines 186-192: the read of the record, and the early
\* return when it has no current_node.
ReturnBegin(r) ==
    /\ th[RedisThread].pc = "idle"
    /\ IF ~position_known(robots[r])
       THEN /\ last' = RobotOutcome("RETURN", r, Handled(Hashes(robots[r], cursor[r],
                                                                daily[r]), <<>>, <<>>))
            /\ th' = th
       ELSE /\ th' = [th EXCEPT ![RedisThread] =
                        Call("return_position", "RETURN", r, 0,
                             Some(robots[r].current_node[1]), {})]
            /\ last' = last
    /\ UNCHANGED <<nodes, robots, arriveKey, now, cursor, daily, paths, connections, sessions>>

\* update_position lines 157-186: the read of the previous node, the write of
\* current_node as _handle_return_command read it, node_count, final_node.
ReturnPosition ==
    /\ th[RedisThread].pc = "return_position"
    /\ LET r == th[RedisThread].robot
           current_node == th[RedisThread].copy[1]
       IN  /\ robots' = [robots EXCEPT ![r].current_node = Some(current_node),
                                       ![r].final_node = Some(ChargingRef)]
           /\ cursor' = [cursor EXCEPT ![r] = count_nodes(@, robots[r].current_node,
                                                          current_node)]
    /\ th' = [th EXCEPT ![RedisThread].pc = "return_charging"]
    /\ UNCHANGED <<nodes, arriveKey, last, now, daily, paths, connections, sessions>>

\* update_position lines 189-219, the read: the status that will be written,
\* from charging_state as stored now.
ReturnCharging ==
    /\ th[RedisThread].pc = "return_charging"
    /\ th' = [th EXCEPT ![RedisThread].pc = "return_status",
                        ![RedisThread].ret =
                            Some(derived_status(robots[th[RedisThread].robot],
                                                th[RedisThread].copy[1]))]
    /\ UNCHANGED <<nodes, robots, arriveKey, last, now, cursor, daily, paths, connections, sessions>>

\* update_position lines 194-227 and _handle_return_command lines 201-210: the
\* write of the status, the stats, the snapshot and the button message.
ReturnStatus ==
    /\ th[RedisThread].pc = "return_status"
    /\ LET r == th[RedisThread].robot
           rec == [robots[r] EXCEPT !.status = th[RedisThread].ret[1]]
           k == publish_state_change(
                    update_operation_state(Hashes(rec, cursor[r], daily[r]), now), r)
       IN  /\ Store(r, k)
           /\ last' = RobotOutcome("RETURN", r,
                          Handled(k, IF k.raised # None THEN <<>>
                                     ELSE <<button(r, ChargingRef)>>, k.events))
    /\ th' = [th EXCEPT ![RedisThread] = Idle]
    /\ UNCHANGED <<nodes, arriveKey, now, paths, connections, sessions>>

\* _handle_battery and update_battery lines 242-247: the two fields written.
BatteryBegin(r, decivolts, charging_state) ==
    /\ th[MqttThread].pc = "idle"
    /\ robots' = [robots EXCEPT
                    ![r].battery_state =
                        Some(calculate_battery_percent(decivolts, charging_state)),
                    ![r].charging_state = Some(charging_state)]
    /\ th' = [th EXCEPT ![MqttThread] =
                Call("battery_status", "battery", r, 0, Absent, {})]
    /\ UNCHANGED <<nodes, arriveKey, last, now, cursor, daily, paths, connections, sessions>>

\* update_battery lines 249-263: the record read back, the status at the
\* charging node, the stats and the snapshot.
BatteryStatus ==
    /\ th[MqttThread].pc = "battery_status"
    /\ LET r == th[MqttThread].robot
           k == update_battery(Hashes(robots[r], cursor[r], daily[r]), r, now,
                               robots[r].battery_state[1], robots[r].charging_state[1])
       IN  /\ Store(r, k)
           /\ last' = RobotOutcome("battery", r, Handled(k, <<>>, k.events))
    /\ th' = [th EXCEPT ![MqttThread] = Idle]
    /\ UNCHANGED <<nodes, arriveKey, now, paths, connections, sessions>>

\* A path_plan message, as far as update_position, between two other
\* messages of the MQTT thread.
MqttPosition(r, current_node) ==
    /\ th[MqttThread].pc = "idle"
    /\ UpdatePosition(r, current_node, Absent)

NextOverlap ==
    \/ \E r \in Followed, current_node \in {ChargingRef, Ref(2, Absent)} :
           MqttPosition(r, current_node)
    \/ \E r \in Followed : ReturnBegin(r)
    \/ ReturnPosition
    \/ ReturnCharging
    \/ ReturnStatus
    \/ \E r \in Followed, battery \in FleetBatteries : BatteryBegin(r, battery[1], battery[2])
    \/ BatteryStatus

SpecOverlap == InitPosition /\ [][NextOverlap]_vars

SchedulerThread == "scheduler"

\* Faulty variant of redis_keys: the store's KEYS is reached, and returns the
\* robot:current_state keys there are.
redis_keys_found(cur) == Some({r \in DOMAIN cur : cur[r] # NoCursor})

\* redis_service.keys(pattern) of reset_all_robots line 41: RedisService has
\* no keys method, the call raises AttributeError (Absent).
redis_keys(cur) == Absent

\* DailyResetScheduler.reset_all_robots at time t: the cursors and buckets it
\* leaves, and what it raised.
reset_all_robots(cur, stats, t) ==
    LET keys == redis_keys(cur)
        reset(r) == start_state(Hashes(NoRecord, cur[r], stats[r]), cur[r].state, t)
        found(r) == keys[1] # {} /\ r \in keys[1] /\ cur[r].state # None
    IN  IF keys = Absent
        THEN [cursor |-> cur, daily |-> stats, raised |-> "AttributeError"]
        ELSE [cursor |-> [r \in DOMAIN cur |-> IF found(r) THEN reset(r).cur ELSE cur[r]],
              daily |-> [r \in DOMAIN stats |-> IF found(r) THEN reset(r).stats
                                                ELSE stats[r]],
              raised |-> None]

\* The job of the scheduler, on its thread.
ResetJob ==
    /\ th[SchedulerThread].pc = "idle"
    /\ \E job \in {reset_all_robots(cursor, daily, now)} :
        /\ cursor' = job.cursor
        /\ daily' = job.daily
        /\ last' = [op |-> "daily_reset", robot |-> None, pubs |-> <<>>,
                    events |-> <<>>, raised |-> job.raised]
    /\ UNCHANGED <<nodes, robots, arriveKey, th, now, paths, connections, sessions>>

\* update_position up to line 126 of _update_operation_state: the record and
\* node_count are written, and start_state is entered when the operation
\* state of the new status is not the one of the open cursor; its timestamp
\* is read at its entry.
EventBegin(r, current_node) ==
    /\ th[MqttThread].pc = "idle"
    /\ LET rec == [robots[r] EXCEPT !.current_node = Some(current_node),
                                    !.status = derived_status(robots[r], current_node)]
           cur == count_nodes(cursor[r], robots[r].current_node, current_node)
           battery_state == IF rec.battery_state = Absent THEN 0
                            ELSE rec.battery_state[1]
           operation_state == from_robot_status(rec.status, battery_state)
       IN  /\ cur.node_count[1] <= MaxCount
           /\ robots' = [robots EXCEPT ![r] = rec]
           /\ cursor' = [cursor EXCEPT ![r] = cur]
           /\ IF cursor_is(cur, operation_state)
              THEN /\ th' = th
                   /\ last' = CallOutcome("update_position", r, Some(current_node), Absent,
                                          publish_state_change(Hashes(rec, cur, daily[r]), r))
              ELSE /\ th' = [th EXCEPT ![MqttThread] =
                               [Call("start_read", operation_state, r, now, Absent, {})
                                  EXCEPT !.ret = Some(current_node)]]
                   /\ last' = last
    /\ UNCHANGED <<nodes, arriveKey, now, daily, paths, connections, sessions>>

\* start_state line 59: hgetall of the cursor.
StartRead ==
    /\ th[MqttThread].pc = "start_read"
    /\ th' = [th EXCEPT ![MqttThread].pc = "start_close",
                        ![MqttThread].copy = Some(cursor[th[MqttThread].robot])]
    /\ UNCHANGED <<nodes, robots, arriveKey, last, now, cursor, daily, paths, connections, sessions>>

\* start_state lines 62-73: the interval of the cursor as read is closed into
\* the buckets and the cursor is opened in the new state; then the snapshot
\* of update_position.
StartClose ==
    /\ th[MqttThread].pc = "start_close"
    /\ LET c == th[MqttThread]
           r == c.robot
           read == [cursor[r] EXCEPT !.state = c.copy[1].state,
                                     !.started_at = c.copy[1].started_at]
           k == publish_state_change(
                    start_state(Hashes(robots[r], read, daily[r]), c.op, c.node), r)
       IN  /\ cursor' = [cursor EXCEPT ![r] = k.cur]
           /\ daily' = [daily EXCEPT ![r] = k.stats]
           /\ last' = CallOutcome("update_position", r, c.ret, Absent, k)
    /\ th' = [th EXCEPT ![MqttThread] = Idle]
    /\ UNCHANGED <<nodes, robots, arriveKey, now, paths, connections, sessions>>

NextMidnight ==
    \/ Tick
    \/ ResetJob
    \/ \E r \in Followed, current_node \in {ChargingRef, Ref(2, Absent)} :
           EventBegin(r, current_node)
    \/ StartRead
    \/ StartClose

SpecMidnight == InitStats /\ [][NextMidnight]_vars

====
